---------------------------- MODULE Spec2Model ----------------------------
(***************************************************************************)
(* NAT traversal relay: the server's port allocator, tunnel manager,       *)
(* connection registry and per-stream message handler, and the client's    *)
(* connection state machine.                                               *)
(***************************************************************************)
EXTENDS Integers, Sequences, FiniteSets, TLC

(***************************************************************************)
(* Option<T>: None is the empty sequence, Some(x) the one-element one.     *)
(***************************************************************************)
None == << >>
Some(x) == << x >>
IsSome(o) == o # << >>
Unwrap(o) == o[1]

(***************************************************************************)
(* Bounds and program constants.                                           *)
(***************************************************************************)
\* port_range.0 of the server's TunnelManager
PortLo == 8000
\* the range is [PortLo, PortLo + RangeSpan]; the server uses 8000..9000
RangeSpan == 1
PortHi == PortLo + RangeSpan
PortRange == PortLo .. PortHi
\* width of the u16 cursor
U16Mod == 65536
\* ports a caller may name: in the range, and one below and one above it
AnyPort == (PortLo - 1) .. (PortHi + 1)
\* length of a sequence of calls on a stand-alone PortAllocator
MaxCalls == 5

(***************************************************************************)
(* Finite maps (HashMap).                                                  *)
(***************************************************************************)
MapInsert(m, k, v) == [x \in (DOMAIN m) \cup {k} |-> IF x = k THEN v ELSE m[x]]
MapRemove(m, k) == [x \in (DOMAIN m) \ {k} |-> m[x]]
EmptyMap == [x \in {} |-> 0]

\* Uuid::nil(), the placeholder owner of a preferred-port reservation
NilUuid == 0

VARIABLES allocated_ports, next_port
allocVars == << allocated_ports, next_port >>

\* harness of the stand-alone allocator: the last call and its result, the
\* number of calls made, and the ports handed out and not released since
VARIABLES last_call, ncalls, live_ports
\* harness of the codec: a message, its bytes once encoded, and the result
\* of decoding them
VARIABLES codec_msg, codec_bytes, codec_back
codecVars == << codec_msg, codec_bytes, codec_back >>
\* a reader (handle_read) run on its own: the peer it belongs to, its
\* position, the frames it took (history), the messages it handed to
\* handle_message (history), the peer's state that handle_message keeps,
\* and the client's stats.bytes_received
VARIABLES rx_peer, rx_pc, rx_received, rx_dispatched, rx_state, rx_bytes
frameVars == << rx_peer, rx_pc, rx_received, rx_dispatched, rx_state, rx_bytes >>
\* a writer (handle_write) run on its own: the queue of its channel, its
\* position, the message it holds, the chunks written to the stream, and
\* (history) the messages enqueued, in the order of their enqueueing
VARIABLES wq, w_pc, w_cur, wire, w_sent
writerVars == << wq, w_pc, w_cur, wire, w_sent >>
\* the locks of the TunnelManager with the tasks that take them, run on their
\* own: what each task runs (lk_kind), the next step of its script (lk_pc),
\* whether it waits in an acquire (lk_wait), and for every lock its queue of
\* waiting tasks (lk_q) and the guards that are alive (lk_held)
VARIABLES lk_kind, lk_pc, lk_wait, lk_q, lk_held
lockVars == << lk_kind, lk_pc, lk_wait, lk_q, lk_held >>
\* the parts of the program that are run on their own besides the above
benchVars == << writerVars, lockVars >>
harnessVars == << last_call, ncalls, live_ports, codecVars, frameVars, benchVars >>

\* client (ServerConnection): its state, its message_sender, the position of
\* the task NatClient::start spawns (in run_with_reconnect and connect()),
\* the tasks connect() spawns, the frames queued for the writer (outbox) and
\* the frames in flight from the server (inbox), the token and the
\* auto_reconnect flag of its configuration, stats.reconnect_count, the
\* running flag of NatClient, the attempts made and the pings sent in this
\* attempt
VARIABLES state, message_sender, connect_pc, read_task, write_task, heartbeat_task,
          outbox, inbox, config_token, attempts, pings, auto_reconnect,
          reconnect_count, running
\* environment of the client: whether the server can be reached
VARIABLES server_reachable
\* history: an AuthResponse{success = true}, {success = false} was handled
\* in this attempt
VARIABLES auth_ok_received, auth_fail_received
\* history: the control streams that came up and ended, the create_tunnel
\* calls made, and the last one's result and arguments
VARIABLES disconnects, creates, create_result
\* client (ServerConnection): pending_tunnels, keyed by the fresh ids
\* create_tunnel mints, and tunnels, keyed by tunnel id
VARIABLES pending_tunnels, client_tunnels
bookVars == << pending_tunnels, client_tunnels >>
clientVars ==
    << state, message_sender, connect_pc, read_task, write_task, heartbeat_task,
       outbox, inbox, config_token, attempts, pings, auto_reconnect,
       reconnect_count, running, server_reachable, auth_ok_received,
       auth_fail_received, disconnects, creates, create_result, bookVars >>

(***************************************************************************)
(* PortAllocator                                                           *)
(***************************************************************************)
\* self.next_port += 1; if self.next_port > self.port_range.1 { = range.0 }
AdvanceCursor(np) ==
    LET n == (np + 1) % U16Mod
    IN  IF n > PortHi THEN PortLo ELSE n

\* the condition under which the preferred port is taken
PreferredUsable_NoRange(alloc, preferred) ==
    /\ IsSome(preferred)
    /\ Unwrap(preferred) \notin DOMAIN alloc
PreferredUsable_NoMapCheck(alloc, preferred) ==
    /\ IsSome(preferred)
    /\ Unwrap(preferred) >= PortLo
    /\ Unwrap(preferred) <= PortHi
PreferredUsable(alloc, preferred) ==
    /\ IsSome(preferred)
    /\ Unwrap(preferred) >= PortLo
    /\ Unwrap(preferred) <= PortHi
    /\ Unwrap(preferred) \notin DOMAIN alloc

\* the sweep loop: result is [port, next_port]
RECURSIVE Sweep(_, _, _)
Sweep_NoWrap(alloc, np, start_port) ==
    IF np \notin DOMAIN alloc
    THEN [port |-> Some(np), next_port |-> AdvanceCursor(np)]
    ELSE IF np = PortHi
         THEN [port |-> None, next_port |-> start_port]
         ELSE Sweep(alloc, np + 1, start_port)
Sweep_BreakBeforeAdvance(alloc, np, start_port) ==
    IF np \notin DOMAIN alloc
    THEN [port |-> Some(np), next_port |-> AdvanceCursor(np)]
    ELSE IF AdvanceCursor(np) = start_port
         THEN [port |-> None, next_port |-> np]
         ELSE Sweep(alloc, AdvanceCursor(np), start_port)
Sweep(alloc, np, start_port) ==
    IF np \notin DOMAIN alloc
    THEN [port |-> Some(np), next_port |-> AdvanceCursor(np)]
    ELSE LET n == AdvanceCursor(np)
         IN  IF n = start_port
             THEN [port |-> None, next_port |-> n]
             ELSE Sweep(alloc, n, start_port)

\* allocate_port: result is [port, allocated_ports, next_port]
AllocatePort(alloc, np, preferred) ==
    IF PreferredUsable(alloc, preferred)
    THEN [port |-> preferred,
          allocated_ports |-> MapInsert(alloc, Unwrap(preferred), NilUuid),
          next_port |-> np]
    ELSE LET r == Sweep(alloc, np, np)
         IN  [port |-> r.port, allocated_ports |-> alloc, next_port |-> r.next_port]

\* release_port: result is [ok, allocated_ports]
ReleasePort(alloc, port) ==
    [ok |-> port \in DOMAIN alloc, allocated_ports |-> MapRemove(alloc, port)]

(***************************************************************************)
(* Server: universe of the model.                                          *)
(***************************************************************************)
\* control streams the server accepts: two concurrent peers
Streams == {1, 2}
\* client_id strings the clients may present
ClientIds == {"c1", "c2"}
\* tokens: "good" is in config.auth.tokens, "bad" is not
AuthTokens == {"good"}
Tokens == {"good", "bad"}
PROTOCOL_VERSION == 1
\* tunnel ids are fresh UUIDs: the k-th one minted is k
MaxTunnels == 2
TunnelIds == 1 .. MaxTunnels
\* tunnels minted when the public side is modelled too
ServedTunnels == 1
\* public connections accepted, over all tunnels
MaxConns == 1
ConnIds == 1 .. MaxConns
\* NewConnection and Data messages logged per control stream
MaxHist == 2
\* chunks waiting in the queue of one public connection
MaxQueue == 1
\* public connections accepted when the accept path is modelled alone
MaxAccepts == 2
AcceptIds == 1 .. MaxAccepts

\* messages a client may send
AuthMsgs ==
    [type : {"Auth"}, version : {PROTOCOL_VERSION, PROTOCOL_VERSION + 1},
     token : Tokens, client_id : ClientIds]
CreateTunnelMsgs ==
    [type : {"CreateTunnel"},
     remote_port : {None, Some(PortLo), Some(PortHi + 1)}]
CloseTunnelMsgs == [type : {"CloseTunnel"}, tunnel_id : TunnelIds]
DataMsgs == [type : {"Data"}, tunnel_id : TunnelIds, connection_id : ConnIds]
PingMsgs == [type : {"Ping"}]
StatusRequestMsgs == [type : {"StatusRequest"}]
\* a server-originating variant sent by a client
OtherMsgs == [type : {"Pong"}]
NonAuthMsgs ==
    CreateTunnelMsgs \cup CloseTunnelMsgs \cup DataMsgs \cup PingMsgs
        \cup StatusRequestMsgs

\* messages the server sends
AuthResponse(success, error) ==
    [type |-> "AuthResponse", success |-> success, error |-> error,
     server_version |-> PROTOCOL_VERSION]
TunnelCreated(tunnel_id, remote_port) ==
    [type |-> "TunnelCreated", tunnel_id |-> tunnel_id, remote_port |-> remote_port]
TunnelClosed(tunnel_id) ==
    [type |-> "TunnelClosed", tunnel_id |-> tunnel_id, reason |-> "Closed by client"]
NewConnection(tunnel_id, connection_id) ==
    [type |-> "NewConnection", tunnel_id |-> tunnel_id, connection_id |-> connection_id]
Data(tunnel_id, connection_id) ==
    [type |-> "Data", tunnel_id |-> tunnel_id, connection_id |-> connection_id]
ConnectionClosed(tunnel_id, connection_id) ==
    [type |-> "ConnectionClosed", tunnel_id |-> tunnel_id,
     connection_id |-> connection_id]
Pong == [type |-> "Pong"]
Status(tunnel_ids) == [type |-> "Status", tunnels |-> tunnel_ids, connections |-> 0]
\* the reply handle_read sends for an Err(e) of handle_message
ErrorReply(text) == [type |-> "Error", code |-> "InternalError", message |-> text]

(***************************************************************************)
(* Server state.                                                           *)
(***************************************************************************)
\* ConnectionManager.clients: client_id -> the stream whose sender the
\* registered ClientConnection holds
VARIABLES clients
\* TunnelManager.tunnels: tunnel_id -> TunnelHandler, and the UUIDs minted
VARIABLES tunnels, next_tid
\* per control stream: the position of its handle_read task, its
\* client_connection local, the locals of the request in progress, the
\* tunnels map of its current ClientConnection, and its outbound channel
VARIABLES pc, client_connection, cur, session_tunnels, chan
\* listener task of each tunnel, public-connection handlers and pumps
VARIABLES listener, pconn
\* history: the stream that created each tunnel, and per stream the
\* NewConnection and Data messages enqueued on its channel, in order
VARIABLES creator, hist
\* history: per stream, whether an AuthResponse with success = false was sent
\* on it
VARIABLES auth_refused

serverVars ==
    << clients, tunnels, next_tid, pc, client_connection, cur, session_tunnels,
       chan, listener, pconn, creator, hist, auth_refused >>

NoCur == [tunnel_id |-> NilUuid, preferred |-> None, remote_port |-> PortLo]

ServerInit ==
    /\ clients = EmptyMap
    /\ tunnels = EmptyMap
    /\ next_tid = 1
    /\ pc = [s \in Streams |-> "idle"]
    /\ client_connection = [s \in Streams |-> None]
    /\ cur = [s \in Streams |-> NoCur]
    /\ session_tunnels = [s \in Streams |-> {}]
    /\ chan = [s \in Streams |-> [open |-> TRUE]]
    /\ listener = EmptyMap
    /\ pconn = EmptyMap
    /\ creator = EmptyMap
    /\ hist = [s \in Streams |-> << >>]
    /\ auth_refused = [s \in Streams |-> FALSE]

(***************************************************************************)
(* Outbound channel of a control stream (mpsc::unbounded_channel).         *)
(***************************************************************************)
\* Of the channel the model keeps whether its receiver is alive (open): a
\* frame enqueued is written by handle_write or lost with the stream, and
\* the frames that matter to a property are logged in hist.
\* UnboundedSender::send: Err when the receiver was dropped
SendOk(ch) == ch.open
Enqueue(ch, m) == ch
\* tx.send of the answer to a request, when there is one
EnqueueReply(ch, reply) == IF IsSome(reply) THEN Enqueue(ch, Unwrap(reply)) ELSE ch
\* the log of NewConnection and Data messages enqueued on a stream
Logged(h, ch, m) == IF ch.open THEN Append(h, m) ELSE h

\* ConnectionManager::authenticate
Authenticate(token) == token \in AuthTokens

(***************************************************************************)
(* Control stream: accept, read loop, cleanup, writer.                     *)
(***************************************************************************)
othersOf_auth ==
    << tunnels, next_tid, listener, pconn, creator, hist, allocVars, harnessVars,
       clientVars >>
othersOf_stream == << othersOf_auth, auth_refused >>

\* run / handle_client: TLS handshake done, reader and writer spawned
AcceptStream(s) ==
    /\ pc[s] = "idle"
    /\ pc' = [pc EXCEPT ![s] = "read"]
    /\ UNCHANGED << clients, client_connection, cur, session_tunnels, chan >>
    /\ UNCHANGED othersOf_stream

\* the code after the loop of handle_read; on return the task's locals (its
\* client_connection and with it the session's tunnels map) are dropped
CleanupClient(s) ==
    IF IsSome(client_connection[s])
    THEN MapRemove(clients, Unwrap(client_connection[s]))
    ELSE clients

\* handle_read leaves its loop (read_exact fails on EOF or an I/O error, or
\* a length prefix is above 1 MiB) and runs its clean-up
ReadEnd(s) ==
    /\ pc[s] = "read"
    /\ clients' = CleanupClient(s)
    /\ client_connection' = [client_connection EXCEPT ![s] = None]
    /\ session_tunnels' = [session_tunnels EXCEPT ![s] = {}]
    /\ pc' = [pc EXCEPT ![s] = "done"]
    /\ UNCHANGED << cur, chan >>
    /\ UNCHANGED othersOf_stream

\* handle_write: a write to the socket fails (the peer is gone), which ends
\* the writer and drops the receiver of the channel
WriterFail(s) ==
    /\ pc[s] # "idle"
    /\ chan[s].open
    /\ chan' = [chan EXCEPT ![s].open = FALSE]
    /\ UNCHANGED << clients, pc, client_connection, cur, session_tunnels >>
    /\ UNCHANGED othersOf_stream

(***************************************************************************)
(* handle_message, one action per arm.                                     *)
(***************************************************************************)
\* Auth arm: the AuthResponse it sends
AuthReply(m) ==
    IF m.version # PROTOCOL_VERSION
    THEN AuthResponse(FALSE, Some("Protocol version mismatch"))
    ELSE IF Authenticate(m.token)
    THEN AuthResponse(TRUE, None)
    ELSE AuthResponse(FALSE, Some("Authentication failed"))

\* Auth arm
HandleAuth(s, m) ==
    /\ pc[s] = "read"
    /\ m \in AuthMsgs
    /\ IF AuthReply(m).success
       THEN /\ clients' = MapInsert(clients, m.client_id, s)
            /\ client_connection' = [client_connection EXCEPT ![s] = Some(m.client_id)]
            /\ session_tunnels' = [session_tunnels EXCEPT ![s] = {}]
       ELSE UNCHANGED << clients, client_connection, session_tunnels >>
    /\ chan' = [chan EXCEPT ![s] = Enqueue(@, AuthReply(m))]
    /\ auth_refused' = [auth_refused EXCEPT ![s] = @ \/ ~AuthReply(m).success]
    /\ UNCHANGED << pc, cur >>
    /\ UNCHANGED othersOf_auth

\* Ping arm: its answer
PingReply == Some(Pong)

\* Ping arm
HandlePing(s) ==
    /\ pc[s] = "read"
    /\ chan' = [chan EXCEPT ![s] = EnqueueReply(@, PingReply)]
    /\ UNCHANGED << clients, pc, client_connection, cur, session_tunnels >>
    /\ UNCHANGED othersOf_stream

\* StatusRequest arm: its answer
StatusReply(s) ==
    IF IsSome(client_connection[s]) THEN Some(Status(session_tunnels[s])) ELSE None

\* StatusRequest arm
HandleStatusRequest(s) ==
    /\ pc[s] = "read"
    /\ chan' = [chan EXCEPT ![s] = EnqueueReply(@, StatusReply(s))]
    /\ UNCHANGED << clients, pc, client_connection, cur, session_tunnels >>
    /\ UNCHANGED othersOf_stream

\* the catch-all arm: a server-originating variant is logged and dropped
HandleOther(s) ==
    /\ pc[s] = "read"
    /\ UNCHANGED << clients, pc, client_connection, cur, session_tunnels, chan >>
    /\ UNCHANGED othersOf_stream

(***************************************************************************)
(* TunnelManager.                                                          *)
(***************************************************************************)
\* TunnelHandler as create_tunnel builds it
NewHandler(client_id, port) ==
    [remote_port |-> port, client_id |-> client_id, connections |-> {},
     next_connection_id |-> 1]

\* CreateTunnel arm: the answer sent when no tunnel is created (TunnelCreated
\* is sent by the second part of the arm)
CreateTunnelReply(s, m) ==
    IF ~IsSome(client_connection[s])
    THEN Some(ErrorReply("Authentication failed: Not authenticated"))
    ELSE IF ~IsSome(AllocatePort(allocated_ports, next_port, m.remote_port).port)
    THEN Some(ErrorReply("Tunnel error: No available ports"))
    ELSE None

\* CreateTunnel arm, first part: the section of create_tunnel under the
\* allocator's write lock (allocate_port, then the insert of the tunnel id)
HandleCreateTunnel(s, m) ==
    /\ pc[s] = "read"
    /\ m \in CreateTunnelMsgs
    /\ IF IsSome(client_connection[s])
       THEN LET r == AllocatePort(allocated_ports, next_port, m.remote_port)
            IN  IF IsSome(r.port)
                   THEN /\ next_tid <= MaxTunnels
                        /\ allocated_ports' =
                               MapInsert(r.allocated_ports, Unwrap(r.port), next_tid)
                        /\ next_port' = r.next_port
                        /\ next_tid' = next_tid + 1
                        /\ cur' = [cur EXCEPT ![s] =
                               [tunnel_id |-> next_tid, preferred |-> m.remote_port,
                                remote_port |-> Unwrap(r.port)]]
                        /\ pc' = [pc EXCEPT ![s] = "create"]
                        /\ UNCHANGED chan
                   ELSE /\ allocated_ports' = r.allocated_ports
                        /\ next_port' = r.next_port
                        /\ chan' = [chan EXCEPT ![s] =
                               EnqueueReply(@, CreateTunnelReply(s, m))]
                        /\ UNCHANGED << next_tid, cur, pc >>
       ELSE /\ chan' = [chan EXCEPT ![s] = EnqueueReply(@, CreateTunnelReply(s, m))]
            /\ UNCHANGED << allocVars, next_tid, cur, pc >>
    /\ UNCHANGED << clients, tunnels, client_connection, session_tunnels,
                    listener, pconn, creator, hist, auth_refused, harnessVars, clientVars >>

\* CreateTunnel arm, second part: the handler is stored under the registry's
\* write lock, the listener task is spawned, the session records the tunnel
\* (client.add_tunnel) and TunnelCreated is sent
CreateTunnelStore(s) ==
    /\ pc[s] = "create"
    /\ LET t == cur[s].tunnel_id
           port == cur[s].remote_port
           id == Unwrap(client_connection[s])
       IN  /\ tunnels' = MapInsert(tunnels, t, NewHandler(id, port))
           /\ listener' = MapInsert(listener, t,
                  [st |-> "spawned", port |-> port, client_id |-> id])
           /\ creator' = MapInsert(creator, t, s)
           /\ session_tunnels' = [session_tunnels EXCEPT ![s] = @ \cup {t}]
           /\ chan' = [chan EXCEPT ![s] = Enqueue(@, TunnelCreated(t, port))]
    /\ cur' = [cur EXCEPT ![s] = NoCur]
    /\ pc' = [pc EXCEPT ![s] = "read"]
    /\ UNCHANGED << clients, next_tid, client_connection, pconn, hist, auth_refused,
                    allocVars, harnessVars, clientVars >>

\* close_tunnel: under the registry's write lock the handler is removed and
\* its port released; Err when the tunnel is not in the registry
CloseTunnelOk(tunnel_id) == tunnel_id \in DOMAIN tunnels
CloseTunnelRegistry(tunnel_id) == MapRemove(tunnels, tunnel_id)
CloseTunnelPorts_NoRelease(tunnel_id) == allocated_ports
CloseTunnelPorts(tunnel_id) ==
    ReleasePort(allocated_ports, tunnels[tunnel_id].remote_port).allocated_ports

\* CloseTunnel arm: its answer
CloseTunnelReply(s, m) ==
    IF ~IsSome(client_connection[s])
    THEN Some(ErrorReply("Authentication failed: Not authenticated"))
    ELSE IF CloseTunnelOk(m.tunnel_id)
    THEN Some(TunnelClosed(m.tunnel_id))
    ELSE Some(ErrorReply("Tunnel error: Tunnel not found"))

\* CloseTunnel arm
HandleCloseTunnel(s, m) ==
    /\ pc[s] = "read"
    /\ m \in CloseTunnelMsgs
    /\ IF IsSome(client_connection[s]) /\ CloseTunnelOk(m.tunnel_id)
       THEN /\ tunnels' = CloseTunnelRegistry(m.tunnel_id)
            /\ allocated_ports' = CloseTunnelPorts(m.tunnel_id)
            /\ session_tunnels' = [session_tunnels EXCEPT ![s] = @ \ {m.tunnel_id}]
       ELSE UNCHANGED << tunnels, allocated_ports, session_tunnels >>
    /\ chan' = [chan EXCEPT ![s] = EnqueueReply(@, CloseTunnelReply(s, m))]
    /\ UNCHANGED << clients, next_tid, pc, cur, client_connection, listener,
                    pconn, creator, hist, auth_refused, next_port, harnessVars, clientVars >>

\* forward_data: "ok", "closed" (the receiver of the connection's queue was
\* dropped) or "missing" (no such tunnel or connection)
ForwardData(tunnel_id, connection_id) ==
    IF /\ tunnel_id \in DOMAIN tunnels
       /\ connection_id \in tunnels[tunnel_id].connections
    THEN IF pconn[<< tunnel_id, connection_id >>].down THEN "ok" ELSE "closed"
    ELSE "missing"

\* Data arm: its answer
DataReply(s, m) ==
    LET r == ForwardData(m.tunnel_id, m.connection_id)
    IN  IF r = "ok" THEN None
        ELSE IF r = "closed"
        THEN Some(ErrorReply("Connection error: Failed to forward data"))
        ELSE Some(ErrorReply("Tunnel error: Connection not found"))

\* Data arm
HandleData(s, m) ==
    /\ pc[s] = "read"
    /\ m \in DataMsgs
    /\ LET k == << m.tunnel_id, m.connection_id >>
       IN  IF ForwardData(m.tunnel_id, m.connection_id) = "ok"
           THEN /\ pconn[k].q < MaxQueue
                /\ pconn' = [pconn EXCEPT ![k].q = @ + 1]
           ELSE UNCHANGED pconn
    /\ chan' = [chan EXCEPT ![s] = EnqueueReply(@, DataReply(s, m))]
    /\ UNCHANGED << clients, tunnels, next_tid, pc, client_connection, cur,
                    session_tunnels, listener, creator, hist, auth_refused, allocVars,
                    harnessVars, clientVars >>

(***************************************************************************)
(* Public side of a tunnel: listener task, connection handler, pumps.      *)
(***************************************************************************)
sessionVars == << pc, client_connection, cur, session_tunnels, auth_refused >>

\* ports on which a listener task is bound
BoundPorts == {listener[t].port : t \in {x \in DOMAIN listener : listener[x].st = "listening"}}

\* TcpListener::bind: Err when a listener task of this server is bound to the
\* port, and Ok or Err (the port is held by another process of the host)
\* otherwise
BindOutcomes(port) ==
    IF port \in BoundPorts THEN {"bind_failed"} ELSE {"listening", "bind_failed"}

\* the task start_tunnel_listener spawns, up to its accept loop: the lookup
\* of the tunnel (unwrap), then the bind; on Err the task logs and returns
ListenerStart(t) ==
    /\ t \in DOMAIN listener
    /\ listener[t].st = "spawned"
    /\ \E st \in (IF t \notin DOMAIN tunnels THEN {"panicked"}
                  ELSE BindOutcomes(listener[t].port)) :
           listener' = [listener EXCEPT ![t].st = st]
    /\ UNCHANGED << clients, tunnels, next_tid, chan, pconn, creator, hist >>
    /\ UNCHANGED << sessionVars, allocVars, harnessVars, clientVars >>

\* key in pconn of a handler task that ended before it took a connection id
NoConnId == 0

\* listener.accept() and the first block of handle_tunnel_connection: the
\* connection id is taken from the tunnel's counter (unwrap of the lookup:
\* the handler task panics when the tunnel is no longer in the registry)
\* the block under the lock of next_connection_id: the counter after an id
\* was taken from it
TakeConnectionId_NoIncrement(h) == h
TakeConnectionId(h) == [h EXCEPT !.next_connection_id = @ + 1]

AcceptConnection(t) ==
    /\ t \in DOMAIN listener
    /\ listener[t].st = "listening"
    /\ IF t \in DOMAIN tunnels
       THEN LET c == tunnels[t].next_connection_id
            IN  /\ tunnels' = [tunnels EXCEPT ![t] = TakeConnectionId(@)]
                /\ pconn' = MapInsert(pconn, << t, c >>,
                       [st |-> "notify", up |-> FALSE, down |-> FALSE, q |-> 0])
       ELSE /\ pconn' = MapInsert(pconn, << t, NoConnId >>,
                       [st |-> "panicked", up |-> FALSE, down |-> FALSE, q |-> 0])
            /\ UNCHANGED tunnels
    /\ UNCHANGED << clients, next_tid, chan, listener, creator, hist >>
    /\ UNCHANGED << sessionVars, allocVars, harnessVars, clientVars >>

\* an accept while fewer than MaxConns public connections were accepted
PublicAccept(t) ==
    /\ Cardinality(DOMAIN pconn) < MaxConns
    /\ AcceptConnection(t)

\* handle_tunnel_connection: the owning client is looked up by client_id
\* and sent NewConnection; the handler returns if the send fails
NotifyClient(t, c) ==
    /\ << t, c >> \in DOMAIN pconn
    /\ pconn[<< t, c >>].st = "notify"
    /\ LET id == listener[t].client_id
       IN  IF id \in DOMAIN clients
           THEN LET s == clients[id]
                IN  /\ Len(hist[s]) < MaxHist
                    /\ chan' = [chan EXCEPT ![s] = Enqueue(@, NewConnection(t, c))]
                    /\ hist' = [hist EXCEPT ![s] = Logged(@, chan[s], NewConnection(t, c))]
                    /\ pconn' = [pconn EXCEPT ![<< t, c >>].st =
                           IF SendOk(chan[s]) THEN "store" ELSE "ended"]
           ELSE /\ pconn' = [pconn EXCEPT ![<< t, c >>].st = "store"]
                /\ UNCHANGED << chan, hist >>
    /\ UNCHANGED << clients, tunnels, next_tid, listener, creator >>
    /\ UNCHANGED << sessionVars, allocVars, harnessVars, clientVars >>

\* handle_tunnel_connection: the connection is stored in the tunnel's table
\* (unwrap of the lookup) and the two pumps are spawned
StoreConnection(t, c) ==
    /\ << t, c >> \in DOMAIN pconn
    /\ pconn[<< t, c >>].st = "store"
    /\ IF t \in DOMAIN tunnels
       THEN /\ tunnels' = [tunnels EXCEPT ![t].connections = @ \cup {c}]
            /\ pconn' = [pconn EXCEPT ![<< t, c >>] =
                   [@ EXCEPT !.st = "run", !.up = TRUE, !.down = TRUE]]
       ELSE /\ pconn' = [pconn EXCEPT ![<< t, c >>].st = "panicked"]
            /\ UNCHANGED tunnels
    /\ UNCHANGED << clients, next_tid, chan, listener, creator, hist >>
    /\ UNCHANGED << sessionVars, allocVars, harnessVars, clientVars >>

\* the clean-up at the end of the upstream pump
RemoveConnection(t, c) ==
    IF t \in DOMAIN tunnels
    THEN [tunnels EXCEPT ![t].connections = @ \ {c}]
    ELSE tunnels

\* upstream pump: a chunk read from the public socket is sent as Data to the
\* client registered under the tunnel's client_id, if any; a failed send
\* ends the pump
UpstreamRead(t, c) ==
    /\ << t, c >> \in DOMAIN pconn
    /\ pconn[<< t, c >>].up
    /\ LET id == listener[t].client_id
       IN  IF id \in DOMAIN clients
           THEN LET s == clients[id]
                IN  /\ Len(hist[s]) < MaxHist
                    /\ chan' = [chan EXCEPT ![s] = Enqueue(@, Data(t, c))]
                    /\ hist' = [hist EXCEPT ![s] = Logged(@, chan[s], Data(t, c))]
                    /\ IF SendOk(chan[s])
                       THEN UNCHANGED << pconn, tunnels >>
                       ELSE /\ pconn' = [pconn EXCEPT ![<< t, c >>].up = FALSE]
                            /\ tunnels' = RemoveConnection(t, c)
           ELSE UNCHANGED << chan, hist, tunnels, pconn >>
    /\ UNCHANGED << clients, next_tid, listener, creator >>
    /\ UNCHANGED << sessionVars, allocVars, harnessVars, clientVars >>

\* upstream pump: EOF or a read error on the public socket
UpstreamEnd(t, c) ==
    /\ << t, c >> \in DOMAIN pconn
    /\ pconn[<< t, c >>].up
    /\ pconn' = [pconn EXCEPT ![<< t, c >>].up = FALSE]
    /\ tunnels' = RemoveConnection(t, c)
    /\ UNCHANGED << clients, next_tid, chan, listener, creator, hist >>
    /\ UNCHANGED << sessionVars, allocVars, harnessVars, clientVars >>

\* downstream pump: one chunk of the connection's queue is written to the
\* public socket; a write error ends the pump and drops the receiver
DownstreamWrite(t, c) ==
    /\ << t, c >> \in DOMAIN pconn
    /\ pconn[<< t, c >>].down
    /\ pconn[<< t, c >>].q > 0
    /\ \/ pconn' = [pconn EXCEPT ![<< t, c >>].q = @ - 1]
       \/ pconn' = [pconn EXCEPT ![<< t, c >>] = [@ EXCEPT !.down = FALSE, !.q = 0]]
    /\ UNCHANGED << clients, tunnels, next_tid, chan, listener, creator, hist >>
    /\ UNCHANGED << sessionVars, allocVars, harnessVars, clientVars >>

\* downstream pump: recv() returns None once the sender kept in the tunnel's
\* table is dropped and the queue is drained
DownstreamEnd(t, c) ==
    /\ << t, c >> \in DOMAIN pconn
    /\ pconn[<< t, c >>].down
    /\ pconn[<< t, c >>].q = 0
    /\ ~(t \in DOMAIN tunnels /\ c \in tunnels[t].connections)
    /\ pconn' = [pconn EXCEPT ![<< t, c >>].down = FALSE]
    /\ UNCHANGED << clients, tunnels, next_tid, chan, listener, creator, hist >>
    /\ UNCHANGED << sessionVars, allocVars, harnessVars, clientVars >>

(***************************************************************************)
(* The server.                                                             *)
(***************************************************************************)
\* the answer handle_message (and handle_read, for an Err) sends at once to
\* message m of stream s
Reply(s, m) ==
    IF m \in AuthMsgs THEN Some(AuthReply(m))
    ELSE IF m \in CreateTunnelMsgs THEN CreateTunnelReply(s, m)
    ELSE IF m \in CloseTunnelMsgs THEN CloseTunnelReply(s, m)
    ELSE IF m \in DataMsgs THEN DataReply(s, m)
    ELSE IF m \in PingMsgs THEN PingReply
    ELSE IF m \in StatusRequestMsgs THEN StatusReply(s)
    ELSE None

HandleMessage(s, m) ==
    \/ HandleAuth(s, m)
    \/ HandleCreateTunnel(s, m)
    \/ HandleCloseTunnel(s, m)
    \/ HandleData(s, m)
    \/ (m \in PingMsgs /\ HandlePing(s))
    \/ (m \in StatusRequestMsgs /\ HandleStatusRequest(s))
    \/ (m \in OtherMsgs /\ HandleOther(s))

PublicNext ==
    \/ \E t \in TunnelIds : ListenerStart(t)
    \/ \E t \in TunnelIds : PublicAccept(t)
    \/ \E t \in TunnelIds, c \in ConnIds : NotifyClient(t, c)
    \/ \E t \in TunnelIds, c \in ConnIds : StoreConnection(t, c)
    \/ \E t \in TunnelIds, c \in ConnIds : UpstreamRead(t, c)
    \/ \E t \in TunnelIds, c \in ConnIds : UpstreamEnd(t, c)
    \/ \E t \in TunnelIds, c \in ConnIds : DownstreamWrite(t, c)
    \/ \E t \in TunnelIds, c \in ConnIds : DownstreamEnd(t, c)

(***************************************************************************)
(* A stand-alone PortAllocator driven by any sequence of calls.            *)
(***************************************************************************)
AllocInit ==
    /\ allocated_ports = EmptyMap
    /\ next_port = PortLo

HarnessInit ==
    /\ last_call = [op |-> "new", preferred |-> None, port |-> None]
    /\ ncalls = 0
    /\ live_ports = {}

CallAllocate(preferred) ==
    /\ ncalls < MaxCalls
    /\ LET r == AllocatePort(allocated_ports, next_port, preferred)
       IN  /\ allocated_ports' = r.allocated_ports
           /\ next_port' = r.next_port
           /\ last_call' = [op |-> "allocate", preferred |-> preferred, port |-> r.port]
           /\ live_ports' = IF IsSome(r.port) THEN live_ports \cup {Unwrap(r.port)}
                            ELSE live_ports
    /\ ncalls' = ncalls + 1
    /\ UNCHANGED << codecVars, frameVars, benchVars, serverVars, clientVars >>

CallRelease(port) ==
    /\ ncalls < MaxCalls
    /\ LET r == ReleasePort(allocated_ports, port)
       IN  /\ allocated_ports' = r.allocated_ports
           /\ last_call' = [op |-> "release", preferred |-> Some(port), port |-> None]
    /\ live_ports' = live_ports \ {port}
    /\ ncalls' = ncalls + 1
    /\ UNCHANGED << next_port, codecVars, frameVars, benchVars, serverVars, clientVars >>

(***************************************************************************)
(* Client: ServerConnection::connect and the tasks it spawns.              *)
(***************************************************************************)
\* attempts run_with_reconnect makes
MaxAttempts == 2
\* pings the heartbeat sends in one attempt
MaxPings == 1
\* calls of create_tunnel by the application
MaxCreates == 1

\* calls of create_tunnel when the client makes one attempt
MaxRequests == 2

\* arguments the application passes to create_tunnel
LocalPorts == {3000}
RemotePorts == {None, Some(PortLo)}
Protocols == {"Tcp", "Udp"}
Names == {None}

\* the state after NatClient::new and NatClient::start: running is set and
\* the spawned task is about to call run_with_reconnect
ClientInit ==
    /\ state = "Disconnected"
    /\ message_sender = None
    /\ connect_pc = "idle"
    /\ read_task = "none"
    /\ write_task = "none"
    /\ heartbeat_task = "none"
    /\ outbox = << >>
    /\ inbox = << >>
    /\ attempts = 0
    /\ pings = 0
    /\ auth_ok_received = FALSE
    /\ auth_fail_received = FALSE
    /\ reconnect_count = 0
    /\ running = TRUE
    /\ disconnects = 0
    /\ creates = 0
    /\ create_result = [ok |-> FALSE, error |-> None, args |-> None]
    /\ pending_tunnels = EmptyMap
    /\ client_tunnels = EmptyMap

\* variables no client action changes: the configuration
configVars == << config_token, auto_reconnect >>
\* the tasks connect() spawns
taskVars == << read_task, write_task, heartbeat_task >>
\* history of the AuthResponse messages handled in this attempt
authHist == << auth_ok_received, auth_fail_received >>
\* create_tunnel calls of the application
apiVars == << creates, create_result >>
\* what the steps of connect() and of its tasks leave alone
othersOf_read ==
    << configVars, running, server_reachable, apiVars, allocVars, harnessVars,
       serverVars >>
othersOf_connect == << othersOf_read, bookVars >>

\* the Auth message authenticate() builds
AuthMessage ==
    [type |-> "Auth", version |-> PROTOCOL_VERSION, token |-> config_token,
     client_id |-> "c1"]

\* what the server's handle_message enqueues in answer to a frame of the client
ServerReplyTo(m) ==
    IF m.type = "Auth" THEN << AuthReply(m) >>
    ELSE IF m.type = "Ping" THEN << Pong >>
    ELSE << >>

\* the tunnel id create_tunnel of the server mints (Uuid::new_v4): one that
\* the client has not been sent
FreshTunnelId ==
    Cardinality(DOMAIN client_tunnels)
        + Cardinality({i \in 1 .. Len(inbox) : inbox[i].type = "TunnelCreated"}) + 1

\* the TunnelCreated the CreateTunnel arm of the server sends for request m:
\* local_port, protocol and name are those of the request
TunnelCreatedFor(m, tunnel_id, remote_port) ==
    [type |-> "TunnelCreated", tunnel_id |-> tunnel_id, remote_port |-> remote_port,
     local_port |-> m.local_port, protocol |-> m.protocol, name |-> m.name]

\* the answers the server may enqueue to a frame of the client. CreateTunnel
\* is answered with Error when the session is not authenticated and else
\* with TunnelCreated, or with Error when no port is available.
ServerReplies(m) ==
    IF m.type = "CreateTunnel"
    THEN IF AuthReply(AuthMessage).success
         THEN {<< TunnelCreatedFor(m, FreshTunnelId, PortLo) >>,
               << ErrorReply("Tunnel error: No available ports") >>}
         ELSE {<< ErrorReply("Authentication failed: Not authenticated") >>}
    ELSE {ServerReplyTo(m)}

\* NatClient::start, the spawned task: while running, run_with_reconnect is
\* called, which calls connect(): set_state(Connecting). The call is made
\* once the reader of the last attempt has ended.
ConnectStart ==
    /\ connect_pc = "idle"
    /\ running
    /\ attempts < MaxAttempts
    /\ read_task # "running"
    /\ state' = "Connecting"
    /\ connect_pc' = "dial"
    /\ attempts' = attempts + 1
    /\ auth_ok_received' = FALSE
    /\ auth_fail_received' = FALSE
    /\ UNCHANGED << message_sender, taskVars, outbox, inbox, pings,
                    reconnect_count, disconnects >>
    /\ UNCHANGED othersOf_connect

\* NatClient::start, the spawned task: running is false, the task ends
TaskExit ==
    /\ connect_pc = "idle"
    /\ ~running
    /\ connect_pc' = "stopped"
    /\ UNCHANGED << state, message_sender, taskVars, outbox, inbox, attempts, pings,
                    authHist, reconnect_count, disconnects >>
    /\ UNCHANGED othersOf_connect

\* NatClient::stop
Stop ==
    /\ running
    /\ running' = FALSE
    /\ UNCHANGED << state, message_sender, connect_pc, taskVars, outbox, inbox,
                    attempts, pings, authHist, reconnect_count, disconnects >>
    /\ UNCHANGED << configVars, server_reachable, apiVars, bookVars, allocVars,
                    harnessVars, serverVars >>

\* run_with_reconnect after connect() returned: with auto_reconnect it
\* sleeps; without, it breaks and returns Ok(()) to the loop of
\* NatClient::start
AfterConnect == IF auto_reconnect THEN "sleep" ELSE "idle"

\* the count run_with_reconnect keeps once its sleep is over
ReconnectCount_OnlyAfterOk(rc) == IF state = "Disconnected" THEN rc + 1 ELSE rc
ReconnectCount(rc) == rc + 1

\* run_with_reconnect: the sleep is over, reconnect_count is incremented and
\* the loop calls connect() again: set_state(Connecting)
Reconnect ==
    /\ connect_pc = "sleep"
    /\ attempts < MaxAttempts
    /\ read_task # "running"
    /\ reconnect_count' = ReconnectCount(reconnect_count)
    /\ state' = "Connecting"
    /\ connect_pc' = "dial"
    /\ attempts' = attempts + 1
    /\ auth_ok_received' = FALSE
    /\ auth_fail_received' = FALSE
    /\ UNCHANGED << message_sender, taskVars, outbox, inbox, pings, disconnects >>
    /\ UNCHANGED othersOf_connect

\* connect(): the address is empty, or TCP connect or the TLS handshake
\* fails; run_with_reconnect sets Error(e)
ConnectFail ==
    /\ connect_pc = "dial"
    /\ ~server_reachable
    /\ state' = "Error"
    /\ connect_pc' = AfterConnect
    /\ UNCHANGED << message_sender, taskVars, outbox, inbox, attempts, pings,
                    authHist, reconnect_count, disconnects >>
    /\ UNCHANGED othersOf_connect

\* connect(): the stream is up: set_state(Connected), the channel is made
\* and kept in message_sender, the writer and the reader are spawned
ConnectOk ==
    /\ connect_pc = "dial"
    /\ server_reachable
    /\ state' = "Connected"
    /\ message_sender' = Some(attempts)
    /\ write_task' = "running"
    /\ read_task' = "running"
    /\ heartbeat_task' = "none"
    /\ outbox' = << >>
    /\ inbox' = << >>
    /\ pings' = 0
    /\ connect_pc' = "authenticate"
    /\ UNCHANGED << attempts, authHist, reconnect_count, disconnects >>
    /\ UNCHANGED othersOf_connect

\* send_message: Ok iff message_sender is set and the writer still holds the
\* receiver
SendMessageOk_SenderOnly == IsSome(message_sender)
SendMessageOk == IsSome(message_sender) /\ write_task = "running"

\* send_message: the error it returns when it fails
SendMessageError ==
    IF IsSome(message_sender)
    THEN [kind |-> "Connection", message |-> "Failed to send message"]
    ELSE [kind |-> "Connection", message |-> "Not connected"]

\* authenticate(), up to its sleep: the Auth message is sent; on Err connect
\* returns it and run_with_reconnect sets Error(e)
AuthenticateSend ==
    /\ connect_pc = "authenticate"
    /\ IF SendMessageOk
       THEN /\ outbox' = Append(outbox, AuthMessage)
            /\ connect_pc' = "auth_sleep"
            /\ UNCHANGED << state, disconnects >>
       ELSE /\ state' = "Error"
            /\ connect_pc' = AfterConnect
            /\ disconnects' = disconnects + 1
            /\ UNCHANGED outbox
    /\ UNCHANGED << message_sender, taskVars, inbox, attempts, pings, authHist,
                    reconnect_count >>
    /\ UNCHANGED othersOf_connect

\* authenticate(), once its 100 ms sleep is over: set_state(Authenticated),
\* whatever the server answered; then connect() spawns the heartbeat
AuthenticateDone ==
    /\ connect_pc = "auth_sleep"
    /\ state' = "Authenticated"
    /\ heartbeat_task' = "running"
    /\ connect_pc' = "select"
    /\ UNCHANGED << message_sender, read_task, write_task, outbox, inbox, attempts,
                    pings, authHist, reconnect_count, disconnects >>
    /\ UNCHANGED othersOf_connect

\* the writer (handle_write) writes one frame; the server's answer to it is
\* then in flight to the client
WriteFrame ==
    /\ write_task = "running"
    /\ outbox # << >>
    /\ outbox' = Tail(outbox)
    /\ \E reply \in ServerReplies(Head(outbox)) : inbox' = inbox \o reply
    /\ UNCHANGED << state, message_sender, connect_pc, taskVars, attempts, pings,
                    authHist, reconnect_count, disconnects >>
    /\ UNCHANGED othersOf_connect

\* the writer fails on a write (the server is gone) and ends, which drops
\* the receiver
WriteFail ==
    /\ write_task = "running"
    /\ ~server_reachable
    /\ outbox # << >>
    /\ write_task' = "ended"
    /\ outbox' = << >>
    /\ UNCHANGED << state, message_sender, connect_pc, read_task, heartbeat_task,
                    inbox, attempts, pings, authHist, reconnect_count, disconnects >>
    /\ UNCHANGED othersOf_connect

\* the client's handle_message: the state it leaves
ClientHandleMessage(m, st) ==
    IF m.type = "AuthResponse"
    THEN IF m.success THEN "Authenticated" ELSE "Error"
    ELSE st

\* create_tunnel: the name kept for the request; format!("Tunnel {}", local_port)
\* when the caller gave none
TunnelName(name, local_port) ==
    IF IsSome(name) THEN Unwrap(name) ELSE << "Tunnel", local_port >>

\* pending.keys().next(): the first key in the iteration order of the
\* HashMap, which is any of its keys
FirstPendingKeys(pending) == DOMAIN pending

\* the client's handle_message, TunnelCreated arm: name and protocol are
\* those of the first pending entry, which is removed, or the fallback
\* values; the TunnelInfo is stored under the tunnel id of the message
HandleTunnelCreated(m) ==
    IF pending_tunnels = EmptyMap
    THEN /\ client_tunnels' = MapInsert(client_tunnels, m.tunnel_id,
                [name |-> TunnelName(None, m.local_port), protocol |-> "Tcp"])
         /\ UNCHANGED pending_tunnels
    ELSE \E key \in FirstPendingKeys(pending_tunnels) :
            /\ client_tunnels' =
                   MapInsert(client_tunnels, m.tunnel_id, pending_tunnels[key])
            /\ pending_tunnels' = MapRemove(pending_tunnels, key)

\* the reader (handle_read) takes one frame and handles it
ReadFrame ==
    /\ read_task = "running"
    /\ inbox # << >>
    /\ state' = ClientHandleMessage(Head(inbox), state)
    /\ auth_ok_received' =
           (auth_ok_received \/
                (Head(inbox).type = "AuthResponse" /\ Head(inbox).success))
    /\ auth_fail_received' =
           (auth_fail_received \/
                (Head(inbox).type = "AuthResponse" /\ ~Head(inbox).success))
    /\ inbox' = Tail(inbox)
    /\ IF Head(inbox).type = "TunnelCreated"
       THEN HandleTunnelCreated(Head(inbox))
       ELSE UNCHANGED bookVars
    /\ UNCHANGED << message_sender, connect_pc, taskVars, outbox, attempts, pings,
                    reconnect_count, disconnects >>
    /\ UNCHANGED othersOf_read

\* the reader leaves its loop: EOF or an I/O error, the server being gone or
\* the stream being broken (the writer failed on it)
ReadTaskEnd ==
    /\ read_task = "running"
    /\ ~server_reachable \/ write_task = "ended"
    /\ read_task' = "ended"
    /\ inbox' = << >>
    /\ UNCHANGED << state, message_sender, connect_pc, write_task, heartbeat_task,
                    outbox, attempts, pings, authHist, reconnect_count, disconnects >>
    /\ UNCHANGED othersOf_connect

\* heartbeat_loop: a tick sends Ping; the loop ends when the send fails
HeartbeatTick ==
    /\ heartbeat_task = "running"
    /\ IF write_task = "running"
       THEN /\ pings < MaxPings
            /\ outbox' = Append(outbox, [type |-> "Ping"])
            /\ pings' = pings + 1
            /\ UNCHANGED heartbeat_task
       ELSE /\ heartbeat_task' = "ended"
            /\ UNCHANGED << outbox, pings >>
    /\ UNCHANGED << state, message_sender, connect_pc, read_task, write_task, inbox,
                    attempts, authHist, reconnect_count, disconnects >>
    /\ UNCHANGED othersOf_connect

\* connect(): one of the three tasks completed; set_state(Disconnected) and
\* message_sender is cleared
ConnectEnd ==
    /\ connect_pc = "select"
    /\ \/ write_task = "ended"
       \/ read_task = "ended"
       \/ heartbeat_task = "ended"
    /\ state' = "Disconnected"
    /\ message_sender' = None
    /\ connect_pc' = AfterConnect
    /\ disconnects' = disconnects + 1
    /\ UNCHANGED << taskVars, outbox, inbox, attempts, pings, authHist,
                    reconnect_count >>
    /\ UNCHANGED othersOf_connect

\* the CreateTunnel message create_tunnel builds from its arguments
CreateTunnelMessage(local_port, remote_port, protocol, name) ==
    [type |-> "CreateTunnel", local_port |-> local_port, remote_port |-> remote_port,
     protocol |-> protocol, name |-> name]

\* create_tunnel: the request is noted in pending_tunnels under a fresh id,
\* the message is handed to send_message and its result is returned at once
CreateTunnelCall(local_port, remote_port, protocol, name) ==
    /\ creates' = creates + 1
    /\ pending_tunnels' = MapInsert(pending_tunnels, creates + 1,
           [name |-> TunnelName(name, local_port), protocol |-> protocol])
    /\ LET m == CreateTunnelMessage(local_port, remote_port, protocol, name)
           args == [local_port |-> local_port, remote_port |-> remote_port,
                    protocol |-> protocol, name |-> name]
       IN  IF SendMessageOk
           THEN /\ outbox' = Append(outbox, m)
                /\ create_result' = [ok |-> TRUE, error |-> None, args |-> Some(args)]
           ELSE /\ UNCHANGED outbox
                /\ create_result' =
                       [ok |-> FALSE, error |-> Some(SendMessageError),
                        args |-> Some(args)]
    /\ UNCHANGED << state, message_sender, connect_pc, taskVars, inbox, attempts,
                    pings, authHist, reconnect_count, disconnects, client_tunnels >>
    /\ UNCHANGED << configVars, running, server_reachable, allocVars, harnessVars,
                    serverVars >>

\* a call of create_tunnel while fewer than MaxCreates were made
ClientCreateTunnel(local_port, remote_port, protocol, name) ==
    /\ creates < MaxCreates
    /\ CreateTunnelCall(local_port, remote_port, protocol, name)

\* the server (or the network path to it) goes away, and comes back
ServerDown ==
    /\ server_reachable
    /\ server_reachable' = FALSE
    /\ UNCHANGED << state, message_sender, connect_pc, taskVars, outbox, inbox,
                    attempts, pings, authHist, reconnect_count, disconnects >>
    /\ UNCHANGED << configVars, running, apiVars, bookVars, allocVars, harnessVars,
                    serverVars >>

ServerUp ==
    /\ ~server_reachable
    /\ server_reachable' = TRUE
    /\ UNCHANGED << state, message_sender, connect_pc, taskVars, outbox, inbox,
                    attempts, pings, authHist, reconnect_count, disconnects >>
    /\ UNCHANGED << configVars, running, apiVars, bookVars, allocVars, harnessVars,
                    serverVars >>

(***************************************************************************)
(* Message::to_bytes and Message::from_bytes: serde_json over the derived  *)
(* Serialize and Deserialize of Message.                                   *)
(***************************************************************************)
\* JSON values; the text of a JSON string is kept as a tuple
JNull == [j |-> "null"]
JStr(text) == [j |-> "str", v |-> text]
JNum(n) == [j |-> "num", v |-> n]
JBool(b) == [j |-> "bool", v |-> b]
JArr(items) == [j |-> "arr", v |-> items]
JObj(pairs) == [j |-> "obj", v |-> pairs]

\* the fields of each variant of Message and of TunnelInfo, in declaration
\* order, with the kind of their type
TunnelInfoFields ==
    << << "id", "uuid" >>, << "name", "opt_string" >>, << "protocol", "enum" >>,
       << "local_port", "uint" >>, << "remote_port", "uint" >>,
       << "created_at", "datetime" >>, << "bytes_sent", "uint" >>,
       << "bytes_received", "uint" >>, << "active_connections", "uint" >> >>

MessageFields(variant) ==
    CASE variant = "Auth" ->
             << << "version", "uint" >>, << "token", "string" >>,
                << "client_id", "string" >> >>
      [] variant = "AuthResponse" ->
             << << "success", "bool" >>, << "error", "opt_string" >>,
                << "server_version", "uint" >> >>
      [] variant = "CreateTunnel" ->
             << << "local_port", "uint" >>, << "remote_port", "opt_uint" >>,
                << "protocol", "enum" >>, << "name", "opt_string" >> >>
      [] variant = "TunnelCreated" ->
             << << "tunnel_id", "uuid" >>, << "remote_port", "uint" >>,
                << "local_port", "uint" >>, << "protocol", "enum" >>,
                << "name", "opt_string" >> >>
      [] variant = "CloseTunnel" -> << << "tunnel_id", "uuid" >> >>
      [] variant = "TunnelClosed" ->
             << << "tunnel_id", "uuid" >>, << "reason", "string" >> >>
      [] variant = "Data" ->
             << << "tunnel_id", "uuid" >>, << "data", "bytes" >>,
                << "connection_id", "uint" >> >>
      [] variant = "NewConnection" ->
             << << "tunnel_id", "uuid" >>, << "connection_id", "uint" >>,
                << "client_addr", "socket_addr" >> >>
      [] variant = "ConnectionClosed" ->
             << << "tunnel_id", "uuid" >>, << "connection_id", "uint" >> >>
      [] variant = "Ping" -> << << "timestamp", "datetime" >> >>
      [] variant = "Pong" -> << << "timestamp", "datetime" >> >>
      [] variant = "StatusRequest" -> << >>
      [] variant = "Status" ->
             << << "tunnels", "tunnel_infos" >>, << "connections", "uint" >>,
                << "uptime", "uint" >> >>
      [] variant = "Error" ->
             << << "code", "enum" >>, << "message", "string" >> >>

MessageVariants ==
    {"Auth", "AuthResponse", "CreateTunnel", "TunnelCreated", "CloseTunnel",
     "TunnelClosed", "Data", "NewConnection", "ConnectionClosed", "Ping", "Pong",
     "StatusRequest", "Status", "Error"}

\* SocketAddr in a human-readable format is its Display text: ip:port for
\* V4, [ip]:port or [ip%scope_id]:port for V6; the flowinfo of a V6 address
\* is not part of the text
SocketAddrText_NoScope(a) ==
    IF a.v = 4 THEN << "v4", a.ip, a.port >>
    ELSE << "v6", a.ip, 0, a.port >>
SocketAddrText(a) ==
    IF a.v = 4 THEN << "v4", a.ip, a.port >>
    ELSE << "v6", a.ip, a.scope_id, a.port >>

\* SocketAddr::from_str of such a text
SocketAddrParse(text) ==
    IF text[1] = "v4"
    THEN [v |-> 4, ip |-> text[2], port |-> text[3], flowinfo |-> 0, scope_id |-> 0]
    ELSE [v |-> 6, ip |-> text[2], port |-> text[4], flowinfo |-> 0,
          scope_id |-> text[3]]

\* Serialize of a value of a scalar kind
ToJsonScalar(kind, x) ==
    CASE kind = "uint" -> JNum(x)
      [] kind = "bool" -> JBool(x)
      [] kind = "string" -> JStr(<< x >>)
      [] kind = "enum" -> JStr(<< x >>)
      [] kind = "uuid" -> JStr(<< "uuid", x >>)
      [] kind = "datetime" -> JStr(<< "rfc3339", x >>)
      [] kind = "socket_addr" -> JStr(SocketAddrText(x))
      [] kind = "opt_string" -> IF IsSome(x) THEN JStr(<< Unwrap(x) >>) ELSE JNull
      [] kind = "opt_uint" -> IF IsSome(x) THEN JNum(Unwrap(x)) ELSE JNull
      [] kind = "bytes" -> JArr([i \in 1 .. Len(x) |-> JNum(x[i])])

\* Serialize of a struct: an object of its fields, in order
ToJsonStruct(fields, x) ==
    JObj([i \in 1 .. Len(fields) |->
             << fields[i][1], ToJsonScalar(fields[i][2], x[fields[i][1]]) >>])

ToJsonField(kind, x) ==
    IF kind = "tunnel_infos"
    THEN JArr([i \in 1 .. Len(x) |-> ToJsonStruct(TunnelInfoFields, x[i])])
    ELSE ToJsonScalar(kind, x)

\* Message::to_bytes: a unit variant is its name, any other variant an
\* object with the name as its only key
ToBytes(m) ==
    IF MessageFields(m.type) = << >>
    THEN JStr(<< m.type >>)
    ELSE LET fields == MessageFields(m.type)
         IN  JObj(<< << m.type,
                        JObj([i \in 1 .. Len(fields) |->
                                 << fields[i][1],
                                    ToJsonField(fields[i][2], m[fields[i][1]]) >>])
                     >> >>)

\* the value under a key of an object, if any
Lookup(pairs, key) ==
    LET hits == {i \in 1 .. Len(pairs) : pairs[i][1] = key}
    IN  IF hits = {} THEN None ELSE Some(pairs[CHOOSE i \in hits : TRUE][2])

\* whether a JSON value deserializes as a value of a scalar kind
JsonIsScalar(kind, jv) ==
    CASE kind = "uint" -> jv.j = "num"
      [] kind = "bool" -> jv.j = "bool"
      [] kind \in {"string", "enum", "uuid", "datetime", "socket_addr"} -> jv.j = "str"
      [] kind = "opt_string" -> jv.j \in {"null", "str"}
      [] kind = "opt_uint" -> jv.j \in {"null", "num"}
      [] kind = "bytes" ->
             jv.j = "arr" /\ \A i \in 1 .. Len(jv.v) : jv.v[i].j = "num"

\* Deserialize of a value of a scalar kind
FromJsonScalar(kind, jv) ==
    CASE kind \in {"uint", "bool"} -> jv.v
      [] kind \in {"string", "enum"} -> jv.v[1]
      [] kind \in {"uuid", "datetime"} -> jv.v[2]
      [] kind = "socket_addr" -> SocketAddrParse(jv.v)
      [] kind = "opt_string" -> IF jv.j = "null" THEN None ELSE Some(jv.v[1])
      [] kind = "opt_uint" -> IF jv.j = "null" THEN None ELSE Some(jv.v)
      [] kind = "bytes" -> [i \in 1 .. Len(jv.v) |-> jv.v[i].v]

\* a field that is absent deserializes only as an Option (None)
FieldPresent(kind, pairs, key) ==
    IsSome(Lookup(pairs, key)) \/ kind \in {"opt_string", "opt_uint"}

FieldJson(pairs, key) ==
    IF IsSome(Lookup(pairs, key)) THEN Unwrap(Lookup(pairs, key)) ELSE JNull

JsonIsStruct(fields, jv) ==
    /\ jv.j = "obj"
    /\ \A i \in 1 .. Len(fields) :
           /\ FieldPresent(fields[i][2], jv.v, fields[i][1])
           /\ JsonIsScalar(fields[i][2], FieldJson(jv.v, fields[i][1]))

FromJsonStruct(fields, jv) ==
    [key \in {fields[i][1] : i \in 1 .. Len(fields)} |->
        LET i == CHOOSE n \in 1 .. Len(fields) : fields[n][1] = key
        IN  FromJsonScalar(fields[i][2], FieldJson(jv.v, key))]

JsonIsField(kind, jv) ==
    IF kind = "tunnel_infos"
    THEN jv.j = "arr" /\ \A i \in 1 .. Len(jv.v) : JsonIsStruct(TunnelInfoFields, jv.v[i])
    ELSE JsonIsScalar(kind, jv)

FromJsonField(kind, jv) ==
    IF kind = "tunnel_infos"
    THEN [i \in 1 .. Len(jv.v) |-> FromJsonStruct(TunnelInfoFields, jv.v[i])]
    ELSE FromJsonScalar(kind, jv)

\* whether the JSON value is a Message: the name of a unit variant, or an
\* object whose only key is the name of a variant and whose value has the
\* fields of that variant
IsMessageJson(jv) ==
    \/ /\ jv.j = "str"
       /\ Len(jv.v) = 1
       /\ jv.v[1] \in {x \in MessageVariants : MessageFields(x) = << >>}
    \/ /\ jv.j = "obj"
       /\ Len(jv.v) = 1
       /\ jv.v[1][1] \in {x \in MessageVariants : MessageFields(x) # << >>}
       /\ LET fields == MessageFields(jv.v[1][1])
              body == jv.v[1][2]
          IN  /\ body.j = "obj"
              /\ \A i \in 1 .. Len(fields) :
                     /\ FieldPresent(fields[i][2], body.v, fields[i][1])
                     /\ JsonIsField(fields[i][2], FieldJson(body.v, fields[i][1]))

\* Message::from_bytes
FromBytes(jv) ==
    IF ~IsMessageJson(jv) THEN [ok |-> FALSE, value |-> None]
    ELSE IF jv.j = "str" THEN [ok |-> TRUE, value |-> Some([type |-> jv.v[1]])]
    ELSE LET variant == jv.v[1][1]
             fields == MessageFields(variant)
             body == jv.v[1][2]
         IN  [ok |-> TRUE,
              value |-> Some(
                  [key \in {"type"} \cup {fields[i][1] : i \in 1 .. Len(fields)} |->
                      IF key = "type" THEN variant
                      ELSE LET i == CHOOSE n \in 1 .. Len(fields) : fields[n][1] = key
                           IN  FromJsonField(fields[i][2], FieldJson(body.v, key))])]

\* Message values of every variant
WireAddrs ==
    {[v |-> 4, ip |-> "192.0.2.7", port |-> 40000, flowinfo |-> 0, scope_id |-> 0],
     [v |-> 6, ip |-> "2001:db8::7", port |-> 40000, flowinfo |-> 0, scope_id |-> 0],
     [v |-> 6, ip |-> "fe80::7", port |-> 40000, flowinfo |-> 0, scope_id |-> 3],
     [v |-> 6, ip |-> "2001:db8::7", port |-> 40000, flowinfo |-> 5, scope_id |-> 0]}

WireTunnelInfo ==
    [id |-> 1, name |-> Some("web"), protocol |-> "Tcp", local_port |-> 3000,
     remote_port |-> PortLo, created_at |-> 0, bytes_sent |-> 0,
     bytes_received |-> 0, active_connections |-> 1]

WireMsgs ==
    [type : {"Auth"}, version : {PROTOCOL_VERSION, PROTOCOL_VERSION + 1},
     token : {"", "good"}, client_id : {"c1"}]
    \cup [type : {"AuthResponse"}, success : BOOLEAN,
          error : {None, Some("Authentication failed")},
          server_version : {PROTOCOL_VERSION}]
    \cup [type : {"CreateTunnel"}, local_port : {3000}, remote_port : {None, Some(PortLo)},
          protocol : Protocols, name : {None, Some("web")}]
    \cup [type : {"TunnelCreated"}, tunnel_id : {1}, remote_port : {PortLo},
          local_port : {3000}, protocol : Protocols, name : {None, Some("web")}]
    \cup [type : {"CloseTunnel"}, tunnel_id : {1, 2}]
    \cup [type : {"TunnelClosed"}, tunnel_id : {1}, reason : {"", "closed"}]
    \cup [type : {"Data"}, tunnel_id : {1}, data : {<< >>, << 0 >>, << 255, 0 >>},
          connection_id : {1}]
    \cup [type : {"NewConnection"}, tunnel_id : {1}, connection_id : {1},
          client_addr : WireAddrs]
    \cup [type : {"ConnectionClosed"}, tunnel_id : {1}, connection_id : {1, 2}]
    \cup [type : {"Ping", "Pong"}, timestamp : {0, 1}]
    \cup [type : {"StatusRequest"}]
    \cup [type : {"Status"}, tunnels : {<< >>, << WireTunnelInfo >>},
          connections : {0}, uptime : {0, 60}]
    \cup [type : {"Error"}, code : {"InternalError", "TunnelNotFound"},
          message : {"", "x"}]

\* the message with which the codec is idle
NoMessage == [type |-> "StatusRequest"]

CodecInit ==
    /\ codec_bytes = None
    /\ codec_back = None

\* to_bytes of the message
Encode ==
    /\ codec_bytes = None
    /\ codec_bytes' = Some(ToBytes(codec_msg))
    /\ UNCHANGED << codec_msg, codec_back >>
    /\ UNCHANGED << frameVars, benchVars, last_call, ncalls, live_ports, allocVars,
                    serverVars, clientVars >>

\* from_bytes of the bytes
Decode ==
    /\ IsSome(codec_bytes)
    /\ codec_back = None
    /\ codec_back' = Some(FromBytes(Unwrap(codec_bytes)))
    /\ UNCHANGED << codec_msg, codec_bytes >>
    /\ UNCHANGED << frameVars, benchVars, last_call, ncalls, live_ports, allocVars,
                    serverVars, clientVars >>

(***************************************************************************)
(* The readers of the two peers: handle_read of the server and of the      *)
(* client, frame by frame.                                                 *)
(***************************************************************************)
\* the limit on the length prefix of a frame
MaxFrameLen == 1048576
\* frames a reader takes in one run
MaxFrames == 3

\* length prefixes, payloads and frames that arrive at a peer
FrameLens == {64, MaxFrameLen, MaxFrameLen + 1}
Junk == JObj(<< >>)
PeerMsgs(peer) ==
    IF peer = "server"
    THEN [type : {"Auth"}, version : {PROTOCOL_VERSION}, token : {"", "good"},
          client_id : {"c1"}]
         \cup [type : {"Ping"}, timestamp : {0}]
    ELSE [type : {"AuthResponse"}, success : BOOLEAN, error : {None},
          server_version : {PROTOCOL_VERSION}]
         \cup [type : {"Pong"}, timestamp : {0}]
Frames(peer) ==
    [len : FrameLens, payload : {ToBytes(m) : m \in PeerMsgs(peer)} \cup {Junk}]

\* what a pass of the loop does with a frame whose length prefix was read:
\* leave the loop, go on with the next frame, or call handle_message
FrameOutcome_LimitExclusive(f) ==
    IF f.len >= MaxFrameLen THEN "break"
    ELSE IF ~FromBytes(f.payload).ok THEN "continue"
    ELSE "dispatch"
FrameOutcome_BreakOnParseError(f) ==
    IF f.len > MaxFrameLen THEN "break"
    ELSE IF ~FromBytes(f.payload).ok THEN "break"
    ELSE "dispatch"
FrameOutcome(f) ==
    IF f.len > MaxFrameLen THEN "break"
    ELSE IF ~FromBytes(f.payload).ok THEN "continue"
    ELSE "dispatch"

\* the server's client_connection local after its handle_message (Auth arm)
ServerSessionAfter(st, m) ==
    IF m.type = "Auth" /\ AuthReply(m).success THEN Some(m.client_id) ELSE st

\* the state of the peer a reader starts with
ReaderStart(peer) == IF peer = "server" THEN None ELSE << "Connected" >>

FrameInit ==
    /\ rx_pc = "read"
    /\ rx_received = << >>
    /\ rx_dispatched = << >>
    /\ rx_state = ReaderStart(rx_peer)
    /\ rx_bytes = 0

othersOf_reader ==
    << rx_peer, codecVars, benchVars, last_call, ncalls, live_ports, allocVars,
       serverVars, clientVars >>

\* one pass of the loop of the server's handle_read over frame f
ServerReadFrame(f) ==
    /\ rx_peer = "server"
    /\ rx_pc = "read"
    /\ Len(rx_received) < MaxFrames
    /\ rx_received' = Append(rx_received, f)
    /\ IF FrameOutcome(f) = "break"
       THEN /\ rx_pc' = "ended"
            /\ UNCHANGED << rx_dispatched, rx_state >>
       ELSE IF FrameOutcome(f) = "continue"
       THEN UNCHANGED << rx_pc, rx_dispatched, rx_state >>
       ELSE /\ rx_dispatched' = Append(rx_dispatched, Unwrap(FromBytes(f.payload).value))
            /\ rx_state' = ServerSessionAfter(rx_state, Unwrap(FromBytes(f.payload).value))
            /\ UNCHANGED rx_pc
    /\ UNCHANGED rx_bytes
    /\ UNCHANGED othersOf_reader

\* one pass of the loop of the client's handle_read over frame f; the bytes
\* of a frame that was read are counted before it is parsed
ClientReadFrame(f) ==
    /\ rx_peer = "client"
    /\ rx_pc = "read"
    /\ Len(rx_received) < MaxFrames
    /\ rx_received' = Append(rx_received, f)
    /\ IF FrameOutcome(f) = "break"
       THEN /\ rx_pc' = "ended"
            /\ UNCHANGED << rx_dispatched, rx_state, rx_bytes >>
       ELSE IF FrameOutcome(f) = "continue"
       THEN /\ rx_bytes' = rx_bytes + f.len
            /\ UNCHANGED << rx_pc, rx_dispatched, rx_state >>
       ELSE /\ rx_bytes' = rx_bytes + f.len
            /\ rx_dispatched' = Append(rx_dispatched, Unwrap(FromBytes(f.payload).value))
            /\ rx_state' =
                   << ClientHandleMessage(Unwrap(FromBytes(f.payload).value),
                                          rx_state[1]) >>
            /\ UNCHANGED rx_pc
    /\ UNCHANGED othersOf_reader

\* read_exact fails on the length prefix or on the payload: the loop is left
ReaderEof ==
    /\ rx_pc = "read"
    /\ rx_pc' = "ended"
    /\ UNCHANGED << rx_received, rx_dispatched, rx_state, rx_bytes >>
    /\ UNCHANGED othersOf_reader

(***************************************************************************)
(* The writers of the two peers: handle_write of the server and of the     *)
(* client drains the channel of its control stream; any number of tasks    *)
(* hold a clone of the sender.                                             *)
(***************************************************************************)
\* messages enqueued on one channel
MaxSends == 3
\* the tasks that hold a sender of the channel of a server's control stream
Producers == {"handle_message", "handle_tunnel_connection", "upstream_pump"}

WriterInit ==
    /\ wq = << >>
    /\ w_pc = "recv"
    /\ w_cur = None
    /\ wire = << >>
    /\ w_sent = << >>

othersOf_writer ==
    << last_call, ncalls, live_ports, codecVars, frameVars, allocVars, serverVars,
       clientVars, lockVars >>

\* UnboundedSender::send by task p: the message joins the queue; Err, and
\* nothing joins, once the receiver was dropped with the writer
ChannelSend(p) ==
    /\ Len(w_sent) < MaxSends
    /\ w_pc # "ended"
    /\ LET m == [from |-> p, n |-> Len(w_sent) + 1]
       IN  /\ wq' = Append(wq, m)
           /\ w_sent' = Append(w_sent, m)
    /\ UNCHANGED << w_pc, w_cur, wire >>
    /\ UNCHANGED othersOf_writer

\* rx.recv(): the message at the head of the queue
ChannelRecv_Newest(q) == q[Len(q)]
ChannelRecv(q) == Head(q)

\* the two write_all calls of one pass of the loop: the length prefix and
\* the payload of message m
LenChunk(m) == [part |-> "len", of |-> m]
DataChunk(m) == [part |-> "data", of |-> m]

\* handle_write: while let Some(message) = rx.recv().await
WriterRecv ==
    /\ w_pc = "recv"
    /\ wq # << >>
    /\ w_cur' = Some(ChannelRecv(wq))
    /\ wq' = SelectSeq(wq, LAMBDA x : x # ChannelRecv(wq))
    /\ w_pc' = "len"
    /\ UNCHANGED << wire, w_sent >>
    /\ UNCHANGED othersOf_writer

\* handle_write: writer.write_all(&len.to_be_bytes())
WriterWriteLen ==
    /\ w_pc = "len"
    /\ wire' = Append(wire, LenChunk(Unwrap(w_cur)))
    /\ w_pc' = "data"
    /\ UNCHANGED << wq, w_cur, w_sent >>
    /\ UNCHANGED othersOf_writer

\* handle_write: writer.write_all(&data) and flush, then the next pass
WriterWriteData ==
    /\ w_pc = "data"
    /\ wire' = Append(wire, DataChunk(Unwrap(w_cur)))
    /\ w_pc' = "recv"
    /\ w_cur' = None
    /\ UNCHANGED << wq, w_sent >>
    /\ UNCHANGED othersOf_writer

\* handle_write: a write fails; the function returns the error, which drops
\* the receiver and what is left in the queue
WriterWriteError ==
    /\ w_pc \in {"len", "data"}
    /\ w_pc' = "ended"
    /\ wq' = << >>
    /\ w_cur' = None
    /\ UNCHANGED << wire, w_sent >>
    /\ UNCHANGED othersOf_writer

(***************************************************************************)
(* The locks of the TunnelManager (tokio::sync::RwLock): the registry      *)
(* `tunnels`, the `port_allocator`, and of a tunnel its `connections`      *)
(* table and its `next_connection_id` counter.  A tokio RwLock queues its  *)
(* waiters and serves them first come, first served: a reader that arrives *)
(* behind a waiting writer waits too.  Every task is the sequence of the   *)
(* acquires and the drops of guards of its function, in program order;     *)
(* all tasks contend for the locks of one tunnel.                          *)
(***************************************************************************)
MaxTasks == 2
LockTasks == 1 .. MaxTasks
Locks == {"tunnels", "port_allocator", "connections", "next_connection_id"}

Acq(l, mode) == [op |-> "acq", lock |-> l, mode |-> mode]
Rel(l) == [op |-> "rel", lock |-> l]

\* create_tunnel: the allocator guard is dropped before the registry is
\* locked; the listener task is spawned with no guard alive
CreateTunnelLocks_HoldAllocator ==
    << Acq("port_allocator", "w"), Acq("tunnels", "w"), Rel("tunnels"),
       Rel("port_allocator") >>
CreateTunnelLocks ==
    << Acq("port_allocator", "w"), Rel("port_allocator"),
       Acq("tunnels", "w"), Rel("tunnels") >>
\* close_tunnel: the allocator is locked under the registry's write guard
CloseTunnelLocks ==
    << Acq("tunnels", "w"), Acq("port_allocator", "w"),
       Rel("port_allocator"), Rel("tunnels") >>
\* the listener task: the registry's write guard lives until the port is
\* bound (or the bind failed, or the unwrap panicked and unwinding drops it)
ListenerLocks == << Acq("tunnels", "w"), Rel("tunnels") >>
\* handle_tunnel_connection: the block that takes the connection id, then
\* (no guard alive while the client is notified) the block that stores
HandlerLocks ==
    << Acq("tunnels", "r"), Acq("next_connection_id", "w"),
       Rel("next_connection_id"), Rel("tunnels"),
       Acq("tunnels", "r"), Acq("connections", "w"),
       Rel("connections"), Rel("tunnels") >>
\* the end of the upstream pump of a public connection
CleanupLocks ==
    << Acq("tunnels", "r"), Acq("connections", "w"),
       Rel("connections"), Rel("tunnels") >>
\* forward_data
ForwardDataLocks ==
    << Acq("tunnels", "r"), Acq("connections", "r"),
       Rel("connections"), Rel("tunnels") >>

TaskKinds ==
    {"create_tunnel", "close_tunnel", "listener", "handle_tunnel_connection",
     "cleanup", "forward_data"}
LockScript(kind) ==
    CASE kind = "create_tunnel" -> CreateTunnelLocks
      [] kind = "close_tunnel" -> CloseTunnelLocks
      [] kind = "listener" -> ListenerLocks
      [] kind = "handle_tunnel_connection" -> HandlerLocks
      [] kind = "cleanup" -> CleanupLocks
      [] kind = "forward_data" -> ForwardDataLocks
      [] OTHER -> << >>

LockInit ==
    /\ lk_kind = [k \in LockTasks |-> "none"]
    /\ lk_pc = [k \in LockTasks |-> 1]
    /\ lk_wait = [k \in LockTasks |-> FALSE]
    /\ lk_q = [l \in Locks |-> << >>]
    /\ lk_held = [l \in Locks |-> {}]

othersOf_locks ==
    << last_call, ncalls, live_ports, codecVars, frameVars, writerVars, allocVars,
       serverVars, clientVars >>

\* the step task k is at, None when its function has returned
NextStep(k) ==
    IF lk_pc[k] <= Len(LockScript(lk_kind[k]))
    THEN Some(LockScript(lk_kind[k])[lk_pc[k]])
    ELSE None

\* a request is handled, or a task is spawned: task k starts to run `kind`
TaskSpawn(k, kind) ==
    /\ lk_kind[k] = "none"
    /\ \A j \in LockTasks : j < k => lk_kind[j] # "none"
    /\ lk_kind' = [lk_kind EXCEPT ![k] = kind]
    /\ UNCHANGED << lk_pc, lk_wait, lk_q, lk_held >>
    /\ UNCHANGED othersOf_locks

\* a guard of mode `mode` of lock l can be handed out: a write guard when
\* no guard is alive, a read guard when no write guard is alive
Free(l, mode) ==
    IF mode = "w" THEN lk_held[l] = {} ELSE \A g \in lk_held[l] : g[2] = "r"

\* lock.read().await / lock.write().await: the guard is returned at once
\* when it is free and no task waits for the lock; otherwise the task joins
\* the queue of the lock and is suspended
LockRequest(k) ==
    /\ ~lk_wait[k]
    /\ IsSome(NextStep(k))
    /\ Unwrap(NextStep(k)).op = "acq"
    /\ LET l == Unwrap(NextStep(k)).lock
           mode == Unwrap(NextStep(k)).mode
       IN  IF lk_q[l] = << >> /\ Free(l, mode)
           THEN /\ lk_held' = [lk_held EXCEPT ![l] = @ \cup {<< k, mode >>}]
                /\ lk_pc' = [lk_pc EXCEPT ![k] = @ + 1]
                /\ UNCHANGED << lk_q, lk_wait >>
           ELSE /\ lk_q' = [lk_q EXCEPT ![l] = Append(@, k)]
                /\ lk_wait' = [lk_wait EXCEPT ![k] = TRUE]
                /\ UNCHANGED << lk_pc, lk_held >>
    /\ UNCHANGED lk_kind
    /\ UNCHANGED othersOf_locks

\* the guard the first waiter of lock l asks for can be handed out
Grantable(l) ==
    /\ lk_q[l] # << >>
    /\ Free(l, Unwrap(NextStep(Head(lk_q[l]))).mode)

\* a dropped guard lets the lock wake its first waiter, whose acquire
\* returns the guard
LockGrant(l) ==
    /\ Grantable(l)
    /\ LET k == Head(lk_q[l])
       IN  /\ lk_held' = [lk_held EXCEPT
                   ![l] = @ \cup {<< k, Unwrap(NextStep(k)).mode >>}]
           /\ lk_q' = [lk_q EXCEPT ![l] = Tail(@)]
           /\ lk_wait' = [lk_wait EXCEPT ![k] = FALSE]
           /\ lk_pc' = [lk_pc EXCEPT ![k] = @ + 1]
    /\ UNCHANGED lk_kind
    /\ UNCHANGED othersOf_locks

\* a guard goes out of scope or is dropped; with its last guard the task's
\* function returns
LockRelease(k) ==
    /\ IsSome(NextStep(k))
    /\ Unwrap(NextStep(k)).op = "rel"
    /\ lk_held' = [lk_held EXCEPT ![Unwrap(NextStep(k)).lock] =
                       {g \in @ : g[1] # k}]
    /\ IF lk_pc[k] = Len(LockScript(lk_kind[k]))
       THEN /\ lk_kind' = [lk_kind EXCEPT ![k] = "returned"]
            /\ lk_pc' = [lk_pc EXCEPT ![k] = 1]
       ELSE /\ lk_pc' = [lk_pc EXCEPT ![k] = @ + 1]
            /\ UNCHANGED lk_kind
    /\ UNCHANGED << lk_wait, lk_q >>
    /\ UNCHANGED othersOf_locks

\* the parts run on their own, idle
BenchInit == WriterInit /\ LockInit

(***************************************************************************)
(* Specifications.                                                         *)
(***************************************************************************)
vars == << allocVars, harnessVars, serverVars, clientVars >>

\* the harnesses of the codec and of the readers, idle
WireIdle ==
    /\ codec_msg = NoMessage /\ CodecInit
    /\ rx_peer = "server" /\ FrameInit /\ BenchInit

Init ==
    /\ AllocInit /\ HarnessInit /\ ServerInit /\ ClientInit /\ WireIdle
    /\ config_token = "good" /\ auto_reconnect = TRUE /\ server_reachable = TRUE

\* a stand-alone PortAllocator driven by any sequence of calls
NextAlloc ==
    \/ \E preferred \in {None} \cup {Some(p) : p \in AnyPort} : CallAllocate(preferred)
    \/ \E port \in AnyPort : CallRelease(port)

SpecAlloc == Init /\ [][NextAlloc]_vars

\* the Auth messages the server accepts. A refused Auth leaves the sessions
\* and the tunnels as they are (HandleAuth changes auth_refused only), so the
\* specifications about tunnels take the accepted ones and SpecAuth takes all.
AcceptedAuthMsgs == {m \in AuthMsgs : AuthReply(m).success}

\* a CreateTunnel request while fewer than ServedTunnels tunnels were minted
ServedCreateTunnel(s, m) ==
    /\ next_tid <= ServedTunnels
    /\ HandleCreateTunnel(s, m)

\* the whole server, with ServedTunnels tunnels served
Next ==
    \/ \E s \in Streams : AcceptStream(s)
    \/ \E s \in Streams : ReadEnd(s)
    \/ \E s \in Streams : WriterFail(s)
    \/ \E s \in Streams, m \in AcceptedAuthMsgs : HandleAuth(s, m)
    \/ \E s \in Streams, m \in CreateTunnelMsgs : ServedCreateTunnel(s, m)
    \/ \E s \in Streams : CreateTunnelStore(s)
    \/ \E s \in Streams, m \in CloseTunnelMsgs : HandleCloseTunnel(s, m)
    \/ \E s \in Streams, m \in DataMsgs : HandleData(s, m)
    \/ \E s \in Streams : HandlePing(s)
    \/ \E s \in Streams : HandleStatusRequest(s)
    \/ \E s \in Streams : HandleOther(s)
    \/ PublicNext
Spec == Init /\ [][Next]_vars

\* the control plane alone: sessions and the tunnel manager, with the
\* requests that change them and no public side
NextTunnels ==
    \/ \E s \in Streams : AcceptStream(s)
    \/ \E s \in Streams : ReadEnd(s)
    \/ \E s \in Streams, m \in AcceptedAuthMsgs : HandleAuth(s, m)
    \/ \E s \in Streams, m \in CreateTunnelMsgs : HandleCreateTunnel(s, m)
    \/ \E s \in Streams : CreateTunnelStore(s)
    \/ \E s \in Streams, m \in CloseTunnelMsgs : HandleCloseTunnel(s, m)
SpecTunnels == Init /\ [][NextTunnels]_vars

\* the sessions alone: every control stream may send any Auth message any
\* number of times, end, or lose its writer
NextAuth ==
    \/ \E s \in Streams : AcceptStream(s)
    \/ \E s \in Streams : ReadEnd(s)
    \/ \E s \in Streams : WriterFail(s)
    \/ \E s \in Streams, m \in AuthMsgs : HandleAuth(s, m)
SpecAuth == Init /\ [][NextAuth]_vars

\* the client alone, against a server that answers as handle_message does
InitClient ==
    /\ AllocInit /\ HarnessInit /\ ServerInit /\ ClientInit /\ WireIdle
    /\ config_token \in Tokens /\ auto_reconnect \in BOOLEAN
    /\ server_reachable \in BOOLEAN

NextClient ==
    \/ ConnectStart
    \/ TaskExit
    \/ Stop
    \/ Reconnect
    \/ ServerDown
    \/ ServerUp
    \/ \E local_port \in LocalPorts, remote_port \in RemotePorts,
          protocol \in Protocols, name \in Names :
           ClientCreateTunnel(local_port, remote_port, protocol, name)
    \/ ConnectFail
    \/ ConnectOk
    \/ AuthenticateSend
    \/ AuthenticateDone
    \/ WriteFrame
    \/ WriteFail
    \/ ReadFrame
    \/ ReadTaskEnd
    \/ HeartbeatTick
    \/ ConnectEnd
SpecClient == InitClient /\ [][NextClient]_vars

\* the client with its tasks scheduled: a sleep that is over ends, and a step
\* of connect() that can be taken is taken
FairClient ==
    /\ WF_vars(Reconnect)
    /\ WF_vars(ConnectOk)
    /\ WF_vars(AuthenticateSend)
    /\ WF_vars(AuthenticateDone)
    /\ WF_vars(ReadTaskEnd)
\* the codec applied to a Message value of any variant
InitCodec ==
    /\ AllocInit /\ HarnessInit /\ ServerInit /\ ClientInit
    /\ config_token = "good" /\ auto_reconnect = TRUE /\ server_reachable = TRUE
    /\ codec_msg \in WireMsgs /\ CodecInit
    /\ rx_peer = "server" /\ FrameInit /\ BenchInit
NextCodec ==
    \/ Encode
    \/ Decode
SpecCodec == InitCodec /\ [][NextCodec]_vars

\* the reader of either peer, fed any frames
InitFrames ==
    /\ AllocInit /\ HarnessInit /\ ServerInit /\ ClientInit
    /\ config_token = "good" /\ auto_reconnect = TRUE /\ server_reachable = TRUE
    /\ codec_msg = NoMessage /\ CodecInit
    /\ rx_peer \in {"server", "client"} /\ FrameInit /\ BenchInit
NextFrames ==
    \/ \E f \in Frames("server") : ServerReadFrame(f)
    \/ \E f \in Frames("client") : ClientReadFrame(f)
    \/ ReaderEof
SpecFrames == InitFrames /\ [][NextFrames]_vars

\* the accept path alone: the first control stream authenticates and creates
\* tunnels; public connections are accepted, announced, stored and ended
NextAccept ==
    \/ AcceptStream(1)
    \/ \E m \in AcceptedAuthMsgs : HandleAuth(1, m)
    \/ \E m \in CreateTunnelMsgs : ServedCreateTunnel(1, m)
    \/ CreateTunnelStore(1)
    \/ \E t \in TunnelIds : ListenerStart(t)
    \/ \E t \in TunnelIds :
           Cardinality(DOMAIN pconn) < MaxAccepts /\ AcceptConnection(t)
    \/ \E t \in TunnelIds, c \in AcceptIds : NotifyClient(t, c)
    \/ \E t \in TunnelIds, c \in AcceptIds : StoreConnection(t, c)
    \/ \E t \in TunnelIds, c \in AcceptIds : UpstreamEnd(t, c)
SpecAccept == Init /\ [][NextAccept]_vars

\* one attempt of the client, during which the application calls
\* create_tunnel; the server may go away
NextCreate ==
    \/ ConnectStart
    \/ ConnectOk
    \/ ConnectFail
    \/ AuthenticateSend
    \/ AuthenticateDone
    \/ WriteFrame
    \/ WriteFail
    \/ ReadFrame
    \/ ReadTaskEnd
    \/ ConnectEnd
    \/ ServerDown
    \/ \E local_port \in LocalPorts, remote_port \in RemotePorts,
          protocol \in Protocols, name \in Names :
           creates < MaxRequests
               /\ CreateTunnelCall(local_port, remote_port, protocol, name)
SpecCreate == Init /\ [][NextCreate]_vars

\* a writer and the tasks that enqueue on its channel
NextWriter ==
    \/ \E p \in Producers : ChannelSend(p)
    \/ WriterRecv
    \/ WriterWriteLen
    \/ WriterWriteData
    \/ WriterWriteError
SpecWriter == Init /\ [][NextWriter]_vars

\* the tasks of the TunnelManager and its locks alone.  The runtime polls
\* every task that can run and a lock wakes its first waiter, hence the
\* weak fairness of every step
NextLocks ==
    \/ \E k \in LockTasks, kind \in TaskKinds : TaskSpawn(k, kind)
    \/ \E k \in LockTasks : LockRequest(k)
    \/ \E l \in Locks : LockGrant(l)
    \/ \E k \in LockTasks : LockRelease(k)
FairLocks ==
    /\ \A k \in LockTasks : WF_vars(LockRequest(k)) /\ WF_vars(LockRelease(k))
    /\ \A l \in Locks : WF_vars(LockGrant(l))
SpecLocks == Init /\ [][NextLocks]_vars /\ FairLocks

\* the client left to itself: no call of the application
NextReconnect ==
    \/ ConnectStart
    \/ Reconnect
    \/ ServerDown
    \/ ServerUp
    \/ ConnectFail
    \/ ConnectOk
    \/ AuthenticateSend
    \/ AuthenticateDone
    \/ WriteFrame
    \/ WriteFail
    \/ ReadFrame
    \/ ReadTaskEnd
    \/ HeartbeatTick
    \/ ConnectEnd
SpecClientLive == InitClient /\ [][NextReconnect]_vars /\ FairClient

(***************************************************************************)
(* C1: on a control stream on which no Auth has succeeded, a message other *)
(* than Auth never has its action performed: no tunnel is created or       *)
(* closed, no port is allocated or released, nothing is enqueued to a      *)
(* public connection; and the message is answered with                     *)
(* Error{AuthenticationFailed} or not at all.                              *)
(***************************************************************************)
IsAuthenticationFailedError(reply) ==
    /\ IsSome(reply)
    /\ Unwrap(reply).type = "Error"
    /\ Unwrap(reply).code = "AuthenticationFailed"

\* C1: a message other than Auth handled before any Auth succeeded changes
\* neither registry, allocator nor public connections, and is answered with
\* Error{AuthenticationFailed} or not at all
C1_NoActionBeforeAuth ==
    [][\A s \in Streams, m \in NonAuthMsgs :
          (/\ pc[s] = "read"
           /\ ~IsSome(client_connection[s])
           /\ HandleMessage(s, m))
              => /\ UNCHANGED << tunnels, next_tid, allocated_ports, next_port, pconn >>
                 /\ Reply(s, m) = None \/ IsAuthenticationFailedError(Reply(s, m))]_vars

(***************************************************************************)
(* C2: once the control stream of a session has ended (handle_read has     *)
(* returned), the session is not in the connection registry, no tunnel it  *)
(* created is in the tunnel registry, and the allocator holds no port for  *)
(* such a tunnel.  The clean-up of a session is the tail of handle_read,   *)
(* so what it leaves undone when it returns stays undone.                  *)
(***************************************************************************)
C2_EndedSessionLeavesRegistry ==
    \A s \in Streams :
        (IsSome(client_connection[s]) /\ ReadEnd(s)) =>
            LET id == Unwrap(client_connection[s])
            IN  ~(id \in DOMAIN clients' /\ clients'[id] = s)

C2_TunnelsOfEndedSessionClosed ==
    \A s \in Streams :
        pc[s] = "done" =>
            \A t \in DOMAIN creator :
                creator[t] = s =>
                    /\ t \notin DOMAIN tunnels
                    /\ \A p \in DOMAIN allocated_ports : allocated_ports[p] # t

\* C2: the registry entry goes when handle_read returns, and no tunnel of
\* an ended session, nor its port, is left
C2_EndedSessionIsCleanedUp ==
    /\ [][C2_EndedSessionLeavesRegistry]_vars
    /\ [] C2_TunnelsOfEndedSessionClosed

(***************************************************************************)
(* C3: when an authenticated session B sends CloseTunnel{T} for a tunnel T *)
(* owned by another authenticated session A, T stays in the registry with  *)
(* its port allocated and B is answered with an Error, not TunnelClosed.   *)
(***************************************************************************)
\* tunnel t is in the tunnels map of the session of another stream, which is
\* authenticated under another client_id than stream s
OwnedByOther(s, t) ==
    \E a \in Streams \ {s} :
        /\ IsSome(client_connection[a])
        /\ client_connection[a] # client_connection[s]
        /\ t \in session_tunnels[a]

\* C3: CloseTunnel{T} from a session that does not own T leaves T registered
\* and its port allocated, and is answered with an Error
C3_CloseByNonOwnerRefused ==
    [][\A s \in Streams, m \in CloseTunnelMsgs :
          (/\ IsSome(client_connection[s])
           /\ m.tunnel_id \in DOMAIN tunnels
           /\ OwnedByOther(s, m.tunnel_id)
           /\ HandleCloseTunnel(s, m))
              => /\ m.tunnel_id \in DOMAIN tunnels'
                 /\ tunnels[m.tunnel_id].remote_port \in DOMAIN allocated_ports'
                 /\ Unwrap(CloseTunnelReply(s, m)).type = "Error"]_vars

(***************************************************************************)
(* C4: a Data{tunnel_id, connection_id} message from an authenticated      *)
(* session that does not own tunnel_id enqueues nothing onto a public      *)
(* connection of that tunnel.                                              *)
(***************************************************************************)
\* the session of stream s is authenticated and tunnel t is none of its own:
\* it is not in the session's tunnels map, and it was created on another
\* stream for another client_id
NotOwner(s, t) ==
    /\ IsSome(client_connection[s])
    /\ t \notin session_tunnels[s]
    /\ t \in DOMAIN tunnels
    /\ creator[t] # s
    /\ tunnels[t].client_id # Unwrap(client_connection[s])

\* C4: Data for a tunnel of another session changes no public connection
C4_DataFromNonOwnerDropped ==
    [][\A s \in Streams, m \in DataMsgs :
          (NotOwner(s, m.tunnel_id) /\ HandleData(s, m)) => UNCHANGED pconn]_vars

(***************************************************************************)
(* C5: on every control stream, each Data{tid, cid} the server enqueues is *)
(* preceded on that stream by exactly one NewConnection{tid, cid}.  (The   *)
(* server never sends ConnectionClosed.)                                   *)
(***************************************************************************)
NewConnectionsBefore(h, i) ==
    {j \in 1 .. (i - 1) :
        h[j] = NewConnection(h[i].tunnel_id, h[i].connection_id)}

\* C5: every Data{tid, cid} logged on a stream has exactly one
\* NewConnection{tid, cid} before it on that stream
C5_DataPrecededByNewConnection ==
    \A s \in Streams :
        \A i \in 1 .. Len(hist[s]) :
            hist[s][i].type = "Data" =>
                Cardinality(NewConnectionsBefore(hist[s], i)) = 1

(***************************************************************************)
(* C6: no two tunnels of the registry have the same remote_port, and of    *)
(* two CreateTunnel requests in progress at once neither is assigned the   *)
(* port the other, or a registered tunnel, holds.                          *)
(***************************************************************************)
Creating == {s \in Streams : pc[s] = "create"}

C6_DistinctRemotePorts ==
    /\ \A t1, t2 \in DOMAIN tunnels :
           t1 # t2 => tunnels[t1].remote_port # tunnels[t2].remote_port
    /\ \A s1, s2 \in Creating :
           s1 # s2 => cur[s1].remote_port # cur[s2].remote_port
    /\ \A s \in Creating, t \in DOMAIN tunnels :
           cur[s].remote_port # tunnels[t].remote_port

\* two requests naming the same free preferred port are in progress at once:
\* one holds that port, the other a different one
C6_Witness ==
    /\ Creating = Streams
    /\ \A s \in Streams : cur[s].preferred = Some(PortLo)
    /\ \E s1, s2 \in Streams :
           /\ cur[s1].remote_port = PortLo
           /\ cur[s2].remote_port # PortLo

(***************************************************************************)
(* C7: for any sequence of allocate_port and release_port calls,           *)
(* allocate_port never returns a port that an earlier allocate_port        *)
(* returned and that was not released in between; equivalently, every port *)
(* allocate_port returns is in the allocation map when the call returns.   *)
(***************************************************************************)
C7_NoDoubleAllocation ==
    [][\A preferred \in {None} \cup {Some(p) : p \in AnyPort} :
          CallAllocate(preferred) =>
              (IsSome(last_call'.port) => Unwrap(last_call'.port) \notin live_ports)]_vars

(***************************************************************************)
(* C8: every port returned by allocate_port is in [lo, hi], whatever the   *)
(* preferred port, and the cursor stays in [lo, hi].                       *)
(***************************************************************************)
C8_PortAndCursorInRange ==
    /\ next_port \in PortRange
    /\ (last_call.op = "allocate" /\ IsSome(last_call.port))
           => Unwrap(last_call.port) \in PortRange

\* a port was returned for a preferred port outside the range, after the
\* cursor wrapped
C8_Witness ==
    /\ last_call.op = "allocate"
    /\ IsSome(last_call.preferred)
    /\ Unwrap(last_call.preferred) \notin PortRange
    /\ IsSome(last_call.port)
    /\ next_port = PortLo
    /\ ncalls > RangeSpan

(***************************************************************************)
(* C9: while no create_tunnel call is in progress, the ports of the        *)
(* allocation map are exactly the remote ports of the registered handlers, *)
(* each mapped to its tunnel's id; and when close_tunnel(T) returns Ok the *)
(* port of T is not in the allocation map.                                 *)
(***************************************************************************)
RegistryPorts == {tunnels[t].remote_port : t \in DOMAIN tunnels}

C9_MapMatchesRegistry ==
    (Creating = {}) =>
        /\ DOMAIN allocated_ports = RegistryPorts
        /\ \A t \in DOMAIN tunnels : allocated_ports[tunnels[t].remote_port] = t

C9_ClosedPortIsFree ==
    \A s \in Streams, m \in CloseTunnelMsgs :
        (/\ IsSome(client_connection[s])
         /\ CloseTunnelOk(m.tunnel_id)
         /\ HandleCloseTunnel(s, m))
            => tunnels[m.tunnel_id].remote_port \notin DOMAIN allocated_ports'

C9_AllocatorMatchesRegistry ==
    /\ [] C9_MapMatchesRegistry
    /\ [][C9_ClosedPortIsFree]_vars

\* a tunnel was created and closed, another one is registered, and no
\* create_tunnel call is in progress
C9_Witness ==
    /\ Creating = {}
    /\ next_tid > 2
    /\ Cardinality(DOMAIN tunnels) = 1
    /\ Cardinality(DOMAIN allocated_ports) = 1

(***************************************************************************)
(* C10: the client's state is Authenticated only if, in the current        *)
(* connection attempt, it has received an AuthResponse{success = true}.    *)
(***************************************************************************)
C10_AuthenticatedOnlyAfterAuthResponse ==
    state = "Authenticated" => auth_ok_received

(***************************************************************************)
(* C11: after the server answered AuthResponse{success = false} on a       *)
(* control stream it closes the stream, so no message received later on    *)
(* that stream is processed: in particular no later Auth on the stream     *)
(* creates a session.                                                      *)
(***************************************************************************)
C11_RefusedStreamIsClosed ==
    [][\A s \in Streams :
          auth_refused[s] =>
              (IsSome(client_connection'[s]) => IsSome(client_connection[s]))]_vars

(***************************************************************************)
(* C12: when the client receives AuthResponse{success = false} its state   *)
(* becomes Error and does not become Authenticated later in the same       *)
(* connection attempt, however the arrival of the response is ordered with *)
(* the end of the sleep of authenticate().                                 *)
(***************************************************************************)
C12_RefusedClientNotAuthenticated ==
    auth_fail_received => state # "Authenticated"

(***************************************************************************)
(* C13: on both peers a frame whose length prefix is above 1,048,576 ends  *)
(* the reader, and neither that frame nor any later one is dispatched;     *)
(* the frames with a length up to 1,048,576, exactly 1,048,576 included,   *)
(* that decode are dispatched in the order received.                       *)
(***************************************************************************)
\* the message a peer's payload was encoded from
MsgOf(peer, payload) == CHOOSE m \in PeerMsgs(peer) : ToBytes(m) = payload

\* the messages of the well-formed frames up to the first oversized one
RECURSIVE InOrder(_, _)
InOrder(peer, frames) ==
    IF frames = << >> THEN << >>
    ELSE IF Head(frames).len > 1048576 THEN << >>
    ELSE IF Head(frames).payload = Junk THEN InOrder(peer, Tail(frames))
    ELSE << MsgOf(peer, Head(frames).payload) >> \o InOrder(peer, Tail(frames))

C13_OversizedFrameEndsReader ==
    /\ rx_dispatched = InOrder(rx_peer, rx_received)
    /\ \A i \in 1 .. Len(rx_received) :
           rx_received[i].len > 1048576 =>
               (i = Len(rx_received) /\ rx_pc = "ended")

C13_Witness ==
    /\ Len(rx_received) = 3
    /\ rx_received[1].len = 1048576
    /\ rx_received[2].len < 1048576
    /\ rx_received[3].len > 1048576
    /\ Len(rx_dispatched) = 2
    /\ rx_dispatched[1] # rx_dispatched[2]
    /\ rx_pc = "ended"

(***************************************************************************)
(* C14: on both peers a frame whose payload fails to decode is dropped     *)
(* without any change to the session, tunnel or client state, and the      *)
(* reader goes on: the next well-formed frame on the stream is dispatched. *)
(***************************************************************************)
C14_UndecodableFrameIsDropped ==
    [][Len(rx_received') = Len(rx_received) + 1 =>
          LET f == rx_received'[Len(rx_received')]
          IN  f.len <= MaxFrameLen =>
                  IF f.payload = Junk
                  THEN /\ rx_state' = rx_state
                       /\ rx_dispatched' = rx_dispatched
                       /\ rx_pc' = "read"
                  ELSE rx_dispatched' =
                           Append(rx_dispatched, MsgOf(rx_peer, f.payload))]_vars

C14_Witness ==
    /\ Len(rx_received) = 2
    /\ rx_received[1].len <= MaxFrameLen
    /\ rx_received[1].payload = Junk
    /\ rx_received[2].payload # Junk
    /\ Len(rx_dispatched) = 1
    /\ rx_state # ReaderStart(rx_peer)

(***************************************************************************)
(* C15: for every Message value of every variant, from_bytes(to_bytes(m))  *)
(* succeeds and yields a value equal to m.                                 *)
(***************************************************************************)
RoundTrips ==
    IsSome(codec_back) =>
        /\ Unwrap(codec_back).ok
        /\ Unwrap(Unwrap(codec_back).value) = codec_msg

HasFlowinfo(m) ==
    /\ m.type = "NewConnection"
    /\ m.client_addr.v = 6
    /\ m.client_addr.flowinfo # 0

InConnect == connect_pc \in {"dial", "authenticate", "auth_sleep", "select"}

RetryPending ==
    /\ auto_reconnect
    /\ connect_pc = "sleep"
    /\ attempts < MaxAttempts
    /\ server_reachable

C16_ReturnsToAuthenticated ==
    RetryPending ~> (state = "Authenticated" \/ ~server_reachable)

\* the claim as stated: the count is the number of disconnections
C16_CountEqualsDisconnections ==
    /\ []((auto_reconnect /\ InConnect) => reconnect_count = disconnects)
    /\ C16_ReturnsToAuthenticated

\* C16 amended: the count is the number of retries, that is of the calls of
\* connect() after the first, whatever ended the attempt before (a
\* disconnection, a failed connect or a failed send of Auth)
C16_CountEqualsRetries ==
    /\ []((auto_reconnect /\ attempts >= 1) => reconnect_count = attempts - 1)
    /\ C16_ReturnsToAuthenticated

C16_Witness ==
    /\ auto_reconnect
    /\ reconnect_count = 1
    /\ disconnects = 1
    /\ state = "Authenticated"

(***************************************************************************)
(* C17: with auto_reconnect = false a started client makes exactly one     *)
(* connection attempt: once it has ended, connect is not attempted again.  *)
(***************************************************************************)
C17_OneAttemptWithoutAutoReconnect ==
    ~auto_reconnect => attempts <= 1

(***************************************************************************)
(* C18: create_tunnel returns without waiting for a reply of the server;   *)
(* it fails with a connection error exactly when no control stream is up   *)
(* (message_sender is absent, or the receiver of its channel was dropped), *)
(* and otherwise it enqueues exactly one CreateTunnel message that carries *)
(* the local_port, remote_port, protocol and name it was given.            *)
(***************************************************************************)
ControlStreamUp == IsSome(message_sender) /\ write_task = "running"

CarriesArgs(m, args) ==
    /\ m.type = "CreateTunnel"
    /\ m.local_port = args.local_port
    /\ m.remote_port = args.remote_port
    /\ m.protocol = args.protocol
    /\ m.name = args.name

C18_CreateTunnelSendsOrFails ==
    [][creates' # creates =>
          /\ create_result'.ok <=> ControlStreamUp
          /\ create_result'.ok =>
                 /\ Len(outbox') = Len(outbox) + 1
                 /\ SubSeq(outbox', 1, Len(outbox)) = outbox
                 /\ CarriesArgs(outbox'[Len(outbox')], Unwrap(create_result'.args))
          /\ ~create_result'.ok =>
                 /\ outbox' = outbox
                 /\ Unwrap(create_result'.error).kind = "Connection"
          /\ inbox' = inbox /\ state' = state]_vars

C18_Witness ==
    /\ creates = 1
    /\ ~create_result.ok
    /\ IsSome(message_sender)

(***************************************************************************)
(* C19: after close_tunnel(T) has completed the server enqueues no further *)
(* Data{T, ...} message to any session, and every public connection that   *)
(* belonged to T is ended: both of its pumps are stopped.                  *)
(***************************************************************************)
\* tunnels that were registered and have been closed
Closed(t) == t \in DOMAIN creator /\ t \notin DOMAIN tunnels

DataOf(h, t) == {i \in 1 .. Len(h) : h[i].type = "Data" /\ h[i].tunnel_id = t}

\* first half: no Data of a closed tunnel is enqueued
C19_NoDataAfterClose ==
    [][\A t \in TunnelIds : Closed(t) =>
          \A s \in Streams : DataOf(hist'[s], t) = DataOf(hist[s], t)]_vars

\* second half: the pumps of a closed tunnel's connections are stopped
C19_PumpsStoppedAfterClose ==
    \A t \in TunnelIds : Closed(t) =>
        \A c \in ConnIds : << t, c >> \in DOMAIN pconn =>
            (~pconn[<< t, c >>].up /\ ~pconn[<< t, c >>].down)

(***************************************************************************)
(* C20: after close_tunnel(T) has completed T's public listener accepts no *)
(* new connection, no NewConnection{T, ...} is emitted afterwards, and the *)
(* listening port is unbound, so that a later CreateTunnel that is         *)
(* assigned the same port can bind it.                                     *)
(***************************************************************************)
NewConnectionOf(h, t) ==
    {i \in 1 .. Len(h) : h[i].type = "NewConnection" /\ h[i].tunnel_id = t}

C20_ListenerStoppedAfterClose ==
    /\ [][\A t \in TunnelIds : Closed(t) =>
              /\ \A s \in Streams :
                     NewConnectionOf(hist'[s], t) = NewConnectionOf(hist[s], t)
              /\ DOMAIN pconn' \subseteq DOMAIN pconn]_vars
    /\ [](\A t \in TunnelIds : Closed(t) => listener[t].port \notin BoundPorts)


(***************************************************************************)
(* C21: if the bind of the public listener of a newly created tunnel       *)
(* fails, the tunnel is torn down: its port is released in the allocator,  *)
(* its handler is removed from the registry and the owning client is sent  *)
(* TunnelClosed.                                                           *)
(***************************************************************************)
\* the messages of kind m logged on some control stream
SentTo(h, m) == \E s \in Streams : \E i \in 1 .. Len(h[s]) : h[s][i] = m

BindFails(t) ==
    /\ t \in DOMAIN listener
    /\ listener[t].st = "spawned"
    /\ listener'[t].st = "bind_failed"

C21_BindFailureTearsDown ==
    [][\A t \in TunnelIds :
          BindFails(t) =>
              /\ t \notin DOMAIN tunnels'
              /\ listener[t].port \notin DOMAIN allocated_ports'
              /\ SentTo(hist', TunnelClosed(t))]_vars


(***************************************************************************)
(* C22: when the upstream pump of public connection (T, cid) sees EOF or a *)
(* read error, the connection is removed from the connection table of T    *)
(* and ConnectionClosed{T, cid} is enqueued to the owning session.         *)
(***************************************************************************)
\* the upstream pump of (t, c) ends on its read, not on a failed send
UpstreamEof(t, c) ==
    /\ << t, c >> \in DOMAIN pconn
    /\ pconn[<< t, c >>].up
    /\ ~pconn'[<< t, c >>].up
    /\ LET id == listener[t].client_id
       IN  id \in DOMAIN clients => SendOk(chan[clients[id]])

C22_UpstreamEofRemovesEntry ==
    [][\A t \in TunnelIds, c \in ConnIds :
          UpstreamEof(t, c) =>
              (t \in DOMAIN tunnels' => c \notin tunnels'[t].connections)]_vars

\* the owning session is the one registered under the client_id of T
C22_UpstreamEofSendsConnectionClosed ==
    [][\A t \in TunnelIds, c \in ConnIds :
          (UpstreamEof(t, c) /\ listener[t].client_id \in DOMAIN clients)
          => SentTo(hist', ConnectionClosed(t, c))]_vars


(***************************************************************************)
(* C23: within one tunnel connection ids are assigned 1, 2, 3, ... in      *)
(* increasing order and no value is assigned twice, also when several      *)
(* public connections are being accepted at once; a pair (tunnel_id,       *)
(* connection_id) never designates two different public sockets.           *)
(***************************************************************************)
\* the ids assigned so far in tunnel t: every handler task keeps its entry
AssignedIds(t) == {k[2] : k \in {x \in DOMAIN pconn : x[1] = t /\ x[2] # NoConnId}}

\* the ids assigned in t are 1 .. n, n the number of connections accepted
IdsAreInitialSegment ==
    \A t \in DOMAIN tunnels : AssignedIds(t) = 1 .. (tunnels[t].next_connection_id - 1)

\* an accept assigns the id after the greatest one assigned, to a pair that
\* designates no socket yet
AcceptTakesFreshId ==
    \A k \in DOMAIN pconn' :
        (pconn'[k].st = "notify" /\ (k \in DOMAIN pconn => pconn[k] # pconn'[k]))
        => /\ k \notin DOMAIN pconn
           /\ \A c \in AssignedIds(k[1]) : c < k[2]
           /\ k[2] = Cardinality(AssignedIds(k[1])) + 1

C23_ConnectionIdsUnique == []IdsAreInitialSegment /\ [][AcceptTakesFreshId]_vars

\* two handlers of one tunnel run at once, neither stored yet
C23_Witness ==
    \E t \in DOMAIN tunnels :
        /\ << t, 1 >> \in DOMAIN pconn /\ pconn[<< t, 1 >>].st \in {"notify", "store"}
        /\ << t, 2 >> \in DOMAIN pconn /\ pconn[<< t, 2 >>].st \in {"notify", "store"}


(***************************************************************************)
(* C24: for every TunnelCreated{tunnel_id, ...} the client processes, the  *)
(* TunnelInfo recorded under tunnel_id carries the name and the protocol   *)
(* of the create_tunnel request this TunnelCreated answers, also when      *)
(* several requests are outstanding or an earlier one was answered with    *)
(* an Error.                                                               *)
(***************************************************************************)
\* the reader handles the TunnelCreated at the head of the inbox
ProcessesTunnelCreated ==
    /\ read_task = "running"
    /\ read_task' = "running"
    /\ inbox # << >>
    /\ Head(inbox).type = "TunnelCreated"
    /\ inbox' = Tail(inbox)

\* the server echoes the request in its TunnelCreated: name and protocol of
\* the request answered are those of the message
C24_TunnelInfoOfItsRequest ==
    [][ProcessesTunnelCreated =>
          LET m == Head(inbox)
          IN  /\ m.tunnel_id \in DOMAIN client_tunnels'
              /\ client_tunnels'[m.tunnel_id] =
                     [name |-> TunnelName(m.name, m.local_port),
                      protocol |-> m.protocol]]_vars


(***************************************************************************)
(* C25: when one of the reader, the writer and the heartbeat finishes,     *)
(* connect() returns with the outbound sender cleared and the state        *)
(* Disconnected, and the state stays Disconnected (or Error) until the     *)
(* next attempt begins: no task of the finished attempt changes it.        *)
(***************************************************************************)
\* connect() has returned and the next attempt has not begun
BetweenAttempts == attempts > 0 /\ connect_pc \in {"idle", "sleep", "stopped"}

\* first half: the return of connect() after its select
C25_ConnectReturnsDisconnected ==
    [][(connect_pc = "select" /\ connect_pc' # "select") =>
          (state' = "Disconnected" /\ message_sender' = None)]_vars

\* second half: the state between two attempts
C25_StateStaysDisconnected ==
    [][(BetweenAttempts /\ state \in {"Disconnected", "Error"}) =>
          (state' = state \/ connect_pc' = "dial")]_vars


(***************************************************************************)
(* C26: in the accept path the PublicConnection entry of cid is registered *)
(* in the connection table of the tunnel before NewConnection{T, cid} is   *)
(* enqueued, so that a Data{T, cid} the client sends in reaction always    *)
(* finds the connection and is never rejected as missing.                  *)
(***************************************************************************)
\* NewConnection{t, c} is enqueued by this step
Announces(t, c) ==
    /\ ~SentTo(hist, NewConnection(t, c))
    /\ SentTo(hist', NewConnection(t, c))

C26_RegisteredBeforeAnnounced ==
    [][\A t \in TunnelIds, c \in ConnIds :
          Announces(t, c) =>
              (t \in DOMAIN tunnels /\ c \in tunnels[t].connections)]_vars

\* the connection (t, c) was announced and neither its tunnel was closed
\* nor its handler or its upstream pump has ended
AnnouncedAndLive(t, c) ==
    /\ SentTo(hist, NewConnection(t, c))
    /\ t \in DOMAIN tunnels
    /\ \/ pconn[<< t, c >>].st = "store"
       \/ pconn[<< t, c >>].st = "run" /\ pconn[<< t, c >>].up

C26_DataFindsAnnouncedConnection ==
    \A t \in TunnelIds, c \in ConnIds :
        AnnouncedAndLive(t, c) => ForwardData(t, c) # "missing"


(***************************************************************************)
(* C27: Data{tunnel_id, connection_id, bytes} of an authenticated client   *)
(* is enqueued on the outbound queue of the matching PublicConnection if   *)
(* it is registered; if the tunnel or the connection is missing, the       *)
(* server replies Error with code TunnelNotFound, changes no state and     *)
(* keeps the session running.                                              *)
(***************************************************************************)
\* stream s is authenticated and its reader is about to take a frame
ReadyAuthenticated(s) == pc[s] = "read" /\ IsSome(client_connection[s])

C27_MissingDataAnsweredTunnelNotFound ==
    \A s \in Streams, m \in DataMsgs :
        (ReadyAuthenticated(s) /\ ForwardData(m.tunnel_id, m.connection_id) = "missing")
        => /\ IsSome(DataReply(s, m))
           /\ Unwrap(DataReply(s, m)).type = "Error"
           /\ Unwrap(DataReply(s, m)).code = "TunnelNotFound"

\* a Data enqueues one chunk on the queue of its connection and changes
\* nothing else; a Data that finds no connection changes nothing
C27_DataChangesOnlyItsQueue ==
    [][pconn' # pconn /\ DOMAIN pconn' = DOMAIN pconn =>
          \A k \in DOMAIN pconn :
              pconn'[k].q > pconn[k].q =>
                  /\ ForwardData(k[1], k[2]) = "ok"
                  /\ pconn'[k].q = pconn[k].q + 1
                  /\ tunnels' = tunnels /\ pc' = pc
                  /\ client_connection' = client_connection]_vars


(***************************************************************************)
(* C28: when CreateTunnel cannot be served because every port of the range *)
(* is allocated, the server replies Error, leaves the allocation map, the  *)
(* cursor of the allocator, the tunnel registry and the tunnel set of the  *)
(* session unchanged, and keeps processing later messages of the session.  *)
(***************************************************************************)
Exhausted == PortRange \subseteq DOMAIN allocated_ports

\* what the CreateTunnel arm does with request m of stream s: allocate_port
\* returns None and leaves the allocator as it is, and the answer is Error
RefusedUnchanged(s, m) ==
    LET r == AllocatePort(allocated_ports, next_port, m.remote_port)
    IN  /\ r.port = None
        /\ r.allocated_ports = allocated_ports
        /\ r.next_port = next_port
        /\ IsSome(CreateTunnelReply(s, m))
        /\ Unwrap(CreateTunnelReply(s, m)).type = "Error"

\* no creation starts on a stream while the range is exhausted: the reader
\* stays in its loop, and the registry and the tunnel set change only by the
\* requests that were in progress or by CloseTunnel
NoCreationStarts ==
    \A s \in Streams :
        (Exhausted /\ pc[s] = "read") =>
            /\ pc'[s] # "create"
            /\ next_port' = next_port
            /\ DOMAIN allocated_ports' \subseteq DOMAIN allocated_ports
            /\ session_tunnels'[s] \subseteq session_tunnels[s]

C28_ExhaustedCreateTunnelIsRefused ==
    /\ [](\A s \in Streams, m \in CreateTunnelMsgs :
             (Exhausted /\ ReadyAuthenticated(s)) => RefusedUnchanged(s, m))
    /\ [][NoCreationStarts]_vars

\* every port is allocated to a tunnel and an authenticated session that
\* owns one of them is reading
C28_Witness ==
    /\ Exhausted
    /\ \E s \in Streams : ReadyAuthenticated(s) /\ session_tunnels[s] # {}


(***************************************************************************)
(* C29: a write error on the public socket of (T, cid) closes that         *)
(* PublicConnection: it is removed from the connection table of T and its  *)
(* upstream pump stops; every other PublicConnection of T, the tunnel T    *)
(* and the owning session are left unchanged.                              *)
(***************************************************************************)
\* the downstream pump of k ends on a failed write of a queued chunk
WriteError(k) ==
    /\ k \in DOMAIN pconn
    /\ pconn[k].down
    /\ pconn[k].q > 0
    /\ ~pconn'[k].down

C29_WriteErrorClosesConnection ==
    [][\A k \in DOMAIN pconn :
          WriteError(k) =>
              /\ k[1] \in DOMAIN tunnels' => k[2] \notin tunnels'[k[1]].connections
              /\ ~pconn'[k].up]_vars

\* second half: the rest is left as it was
C29_WriteErrorLeavesTheRest ==
    [][\A k \in DOMAIN pconn :
          WriteError(k) =>
              /\ \A j \in DOMAIN pconn \ {k} : pconn'[j] = pconn[j]
              /\ DOMAIN tunnels' = DOMAIN tunnels
              /\ sessionVars' = sessionVars
              /\ clients' = clients]_vars


(***************************************************************************)
(* C30: allocate_port with no usable preferred port always terminates; it  *)
(* returns None if and only if every port of [lo, hi] is allocated, and    *)
(* otherwise the first unallocated port met sweeping forward from the      *)
(* cursor, with wrap-around from hi to lo.                                 *)
(***************************************************************************)
\* the i-th port met from cursor np, i = 0 for np itself
PortAfter(np, i) == PortLo + ((np - PortLo + i) % (PortHi - PortLo + 1))

\* the first unallocated port met from np, None when there is none
FirstUnallocated(alloc, np) ==
    LET free == {i \in 0 .. (PortHi - PortLo) : PortAfter(np, i) \notin DOMAIN alloc}
    IN  IF free = {} THEN None
        ELSE Some(PortAfter(np, CHOOSE i \in free : \A j \in free : i <= j))

\* a call of allocate_port whose preferred port is absent or not usable
SweepingCall ==
    /\ ncalls' = ncalls + 1
    /\ last_call'.op = "allocate"
    /\ ~PreferredUsable(allocated_ports, last_call'.preferred)

C30_SweepReturnsFirstUnallocated ==
    [][SweepingCall =>
          /\ last_call'.port = FirstUnallocated(allocated_ports, next_port)
          /\ last_call'.port = None <=> PortRange \subseteq DOMAIN allocated_ports]_vars

\* a sweeping call was refused: the range was exhausted
C30_Witness ==
    /\ last_call.op = "allocate"
    /\ last_call.port = None
    /\ PortRange \subseteq DOMAIN allocated_ports


(***************************************************************************)
(* C31: messages enqueued on the outbound channel of one control stream by *)
(* any number of concurrent producers are written to the stream one whole  *)
(* frame at a time, in the order of their enqueueing: the length prefix    *)
(* and the payload of a message are never interleaved with bytes of        *)
(* another.                                                                *)
(***************************************************************************)
\* the i-th chunk on the stream is the prefix (i odd) or the payload (i
\* even) of the ((i + 1) \div 2)-th message enqueued
C31_WholeFramesInEnqueueOrder ==
    /\ Len(wire) <= 2 * Len(w_sent)
    /\ \A i \in 1 .. Len(wire) :
           wire[i] = IF i % 2 = 1 THEN LenChunk(w_sent[(i + 1) \div 2])
                     ELSE DataChunk(w_sent[(i + 1) \div 2])

\* two frames of different producers are on the stream, the second of which
\* was enqueued while the writer was writing, and a third message waits
C31_Witness ==
    /\ Len(wire) >= 4
    /\ wire[1].of.from # wire[3].of.from
    /\ wq # << >>


(***************************************************************************)
(* C32: every tunnel id in the tunnel set of a server-side session refers  *)
(* to a TunnelHandler that is in the registry of the TunnelManager and     *)
(* whose owner client_id is the id of that session, after any sequence of  *)
(* CreateTunnel and CloseTunnel messages of any sessions; hence the        *)
(* tunnels of a Status reply are exactly the live tunnels of the session.  *)
(***************************************************************************)
\* the tunnels of the registry that belong to the session of stream s
LiveTunnelsOf(s) ==
    {t \in DOMAIN tunnels :
        IsSome(client_connection[s])
            /\ tunnels[t].client_id = Unwrap(client_connection[s])
            /\ creator[t] = s}

C32_SessionTunnelsAreRegistered ==
    \A s \in Streams : \A t \in session_tunnels[s] :
        /\ t \in DOMAIN tunnels
        /\ IsSome(client_connection[s])
        /\ tunnels[t].client_id = Unwrap(client_connection[s])

C32_StatusReportsLiveTunnels ==
    \A s \in Streams :
        (pc[s] = "read" /\ IsSome(StatusReply(s))) =>
            Unwrap(StatusReply(s)).tunnels = LiveTunnelsOf(s)


(***************************************************************************)
(* C33: NewConnection and Data messages of a tunnel T are enqueued only on *)
(* the control stream of the session that created T: after that session   *)
(* has ended, a later session that authenticates with the same client_id   *)
(* never receives messages of T.                                           *)
(***************************************************************************)
\* every message a tunnel's public side logged is on its creator's stream
C33_TunnelMessagesOnlyToCreator ==
    \A s \in Streams : \A i \in 1 .. Len(hist[s]) :
        creator[hist[s][i].tunnel_id] = s

\* the second half: the stream of the creator has ended
C33_NoMessagesAfterCreatorEnded ==
    [][\A s \in Streams : \A t \in DOMAIN creator :
          (pc[creator[t]] = "done" /\ s # creator[t]) =>
              \A i \in 1 .. Len(hist'[s]) :
                  (i > Len(hist[s]) => hist'[s][i].tunnel_id # t)]_vars


(***************************************************************************)
(* C34: while the control stream of an authenticated session is open, the  *)
(* registry of the ConnectionManager maps the client_id of the session to  *)
(* that session; the end of a different control stream that authenticated  *)
(* with the same client_id never removes or replaces the entry of a live   *)
(* session.                                                                *)
(***************************************************************************)
\* the registry maps the client_id of the session of stream s to s
Registered(s) ==
    /\ IsSome(client_connection[s])
    /\ Unwrap(client_connection[s]) \in DOMAIN clients
    /\ clients[Unwrap(client_connection[s])] = s

C34_LiveSessionIsRegistered ==
    \A s \in Streams :
        (pc[s] = "read" /\ IsSome(client_connection[s])) => Registered(s)

\* the second half: the step in which another stream ends
C34_OtherStreamEndKeepsEntry ==
    [][\A s \in Streams, r \in Streams :
          (r # s /\ pc[r] = "read" /\ pc'[r] = "done"
               /\ pc[s] = "read" /\ Registered(s)) => Registered(s)']_vars


(***************************************************************************)
(* C35: after a control stream has ended, the registry of the              *)
(* ConnectionManager holds no entry that the stream added, even if the     *)
(* stream sent several successful Auth messages with different client_ids. *)
(***************************************************************************)
C35_EndedStreamLeavesNoEntry ==
    \A id \in DOMAIN clients : pc[clients[id]] # "done"


(***************************************************************************)
(* C36: whenever the listener task of a tunnel or a handler of a public    *)
(* connection looks its tunnel_id up in the registry, the tunnel is there, *)
(* so none of the unwrap calls fails, for every interleaving of            *)
(* create_tunnel, close_tunnel and public accepts (a close before the      *)
(* listener task starts or while a connection is accepted included).       *)
(***************************************************************************)
C36_LookupsFindTheTunnel ==
    /\ \A t \in DOMAIN listener : listener[t].st # "panicked"
    /\ \A k \in DOMAIN pconn : pconn[k].st # "panicked"

\* the handlers alone: a tunnel whose listener task bound its port
C36_HandlerLookupsFindTheTunnel ==
    \A k \in DOMAIN pconn : pconn[k].st # "panicked"


(***************************************************************************)
(* C37: concurrent executions of create_tunnel, close_tunnel,              *)
(* forward_data, the listener task and the handlers of public connections  *)
(* never deadlock on the lock of the tunnel registry, the lock of the      *)
(* allocator, and the locks of a tunnel's connection table and id counter: *)
(* every task that requests a lock eventually gets it.                     *)
(***************************************************************************)
\* some task can take a step whenever a task waits
C37_NoDeadlock ==
    (\E k \in LockTasks : lk_wait[k]) =>
        \/ \E l \in Locks : Grantable(l)
        \/ \E k \in LockTasks :
               ~lk_wait[k] /\ lk_kind[k] # "none" /\ IsSome(NextStep(k))

C37_EveryRequestIsGranted ==
    \A k \in LockTasks : lk_wait[k] ~> ~lk_wait[k]

\* close_tunnel waits for the allocator under the registry's write guard
\* while create_tunnel holds the allocator
C37_Witness ==
    \E k \in LockTasks, j \in LockTasks :
        /\ lk_kind[k] = "close_tunnel" /\ << k, "w" >> \in lk_held["tunnels"]
        /\ lk_wait[k] /\ lk_q["port_allocator"] = << k >>
        /\ lk_kind[j] = "create_tunnel"
        /\ << j, "w" >> \in lk_held["port_allocator"]


(***************************************************************************)
(* C38: pending_tunnels of the client holds exactly one entry for every    *)
(* CreateTunnel message that was enqueued and is not yet answered: a       *)
(* create_tunnel call that fails with a not-connected error adds no entry, *)
(* and a request that is answered with Error leaves no entry behind.       *)
(***************************************************************************)
C38_FailedCallAddsNoEntry ==
    [][(creates' = creates + 1 /\ ~create_result'.ok)
           => pending_tunnels' = pending_tunnels]_vars

\* the reader task handles an Error reply while requests are pending
C38_ErrorAnswerRemovesEntry ==
    [][(/\ read_task = "running" /\ inbox # << >>
        /\ Head(inbox).type = "Error" /\ inbox' = Tail(inbox)
        /\ pending_tunnels # EmptyMap)
           => Cardinality(DOMAIN pending_tunnels')
                  < Cardinality(DOMAIN pending_tunnels)]_vars


(***************************************************************************)
(* C39: whenever the observable state of the client is Authenticated, a    *)
(* control stream is up (the outbound sender is present), so create_tunnel *)
(* and close_tunnel do not fail with a not-connected error; this holds     *)
(* across disconnects too, where tasks of an ended attempt may still run.  *)
(***************************************************************************)
C39_AuthenticatedHasSender ==
    state = "Authenticated" => IsSome(message_sender)

\* the same, seen by a caller of create_tunnel
C39_AuthenticatedCallIsSent ==
    [][(state = "Authenticated" /\ creates' = creates + 1)
           => (create_result'.ok
                  \/ Unwrap(create_result'.error).message # "Not connected")]_vars


(***************************************************************************)
(* C40: when NatClient::start is called and the server is reachable, for   *)
(* every configured tunnel with auto_start = true a CreateTunnel message   *)
(* is eventually sent to the server, whatever the interleaving of the      *)
(* spawned connection task with the loop that requests the configured      *)
(* tunnels.  The loop of start calls create_tunnel once for each such      *)
(* tunnel and only logs an error, so a message is sent for a tunnel only   *)
(* if that one call enqueues it: stated for the first call after start.    *)
(***************************************************************************)
C40_ConfiguredTunnelIsRequested ==
    [][(server_reachable /\ creates = 0 /\ creates' = 1)
           => (create_result'.ok /\ outbox' # << >>
                   /\ outbox'[Len(outbox')].type = "CreateTunnel")]_vars

=============================================================================
